---- MODULE Spec2Model ----
(***************************************************************************)
(* Verification model of the veranda configurator (src/next.config.mjs):   *)
(* the scene resolution effect of VerandaModel and the PriceCalculator.    *)
(*                                                                         *)
(* Conventions.  Scales are held in thousandths (1000 = 1.0), positions in *)
(* thousandths of a metre, rotations in micro-radians, opacity and         *)
(* transmission in hundredths, money in euro cents, lengths handed to the  *)
(* price calculator in millimetres.  A mesh is addressed by its lowercase  *)
(* name, written here as a base name plus the numeric suffix the asset     *)
(* gives to the mirrored left ("001") and right ("002") instances.         *)
(***************************************************************************)
EXTENDS Integers, Sequences, FiniteSets, TLC

VARIABLES
    cfg,          \* the props VerandaModel was last rendered with
    scene,        \* the scene tree: mesh -> visible, material, scale, rotation, position, userData
    modelScale,   \* scale of the model root (modelRef)
    mounted,      \* has the effect run on the loaded scene
    changes,      \* number of prop changes so far
    priceInput,   \* the config handed to calculateCompleteVeranda
    breakdown,    \* its result (the host's pricing), <<>> before the call
    host,         \* state of VerandaConfiguratorFinal: the useState values the handlers write
    syncPending,  \* the glassType sync effect is scheduled and has not run yet
    lastChange,   \* the last per-side handler call and the entries before it, <<>> if none
    hostPricing,  \* value of the host's pricing useMemo
    hostSteps,    \* number of host handler calls so far
    pathProgress,             \* pathProgressRef.current
    cameraHeight,             \* cameraHeightRef.current
    zoomDistance,             \* zoomDistanceRef.current
    lastPinchDistance,        \* lastPinchDistanceRef.current, pixels
    isDragging,               \* isDraggingRef.current
    verticalDragAccumulator,  \* verticalDragAccumulator.current, pixels
    enclosureView,            \* the enclosureView prop of the camera controller
    now,                      \* Date.now(), milliseconds since the controller was mounted
    animations,               \* jump animations with a requested animation frame outstanding
    lastFrame,                \* the last call of animate and what it wrote, <<>> if none
    cameraSteps,              \* number of camera input events so far
    aiResponse,           \* the text the assistant shows, by its kind
    inFlight,             \* calls of processVoiceInput waiting for callGeminiAPI
    requests,             \* number of calls of processVoiceInput so far
    aiGeneratedConfig,    \* window.aiGeneratedConfig, <<>> while it is not set
    conversationHistory,  \* the assistant's conversationHistory state
    lastCall,             \* the last settled call: its outcome, result and response, <<>> if none
    applied,              \* the requests whose config reached onApplyConfig, in order
    input,        \* the text handed to interpretUserInput
    history,      \* the history handed to interpretUserInput
    interpreted   \* the call of interpretUserInput: what it built and returned, <<>> before it

sceneVars == <<cfg, scene, modelScale, mounted, changes>>

priceVars == <<priceInput, breakdown>>

hostVars == <<host, syncPending, lastChange, hostPricing, hostSteps>>

cameraVars ==
    <<pathProgress, cameraHeight, zoomDistance, lastPinchDistance, isDragging,
      verticalDragAccumulator, enclosureView, now, animations, lastFrame, cameraSteps>>

assistantVars ==
    <<aiResponse, inFlight, requests, aiGeneratedConfig, conversationHistory, lastCall, applied>>

interpreterVars == <<input, history, interpreted>>

vars == <<sceneVars, priceVars, hostVars, cameraVars, assistantVars, interpreterVars>>

\* what the actions of one component leave alone
outsideScene == <<priceVars, hostVars, cameraVars, assistantVars, interpreterVars>>

outsidePrice == <<sceneVars, hostVars, cameraVars, assistantVars, interpreterVars>>

outsideHost == <<sceneVars, priceVars, cameraVars, assistantVars, interpreterVars>>

outsideCamera == <<sceneVars, priceVars, hostVars, assistantVars, interpreterVars>>

outsideAssistant == <<sceneVars, priceVars, hostVars, cameraVars, interpreterVars>>

outsideInterpreter == <<sceneVars, priceVars, hostVars, cameraVars, assistantVars>>

\* JavaScript's undefined, for an absent property of a side entry.
Undefined == "undefined"

\* a || b on strings that are either present or undefined
OrElse(a, b) == IF a = Undefined THEN b ELSE a

(***************************************************************************)
(* Tables of the effect (STEP 1: DEFINE ALL CONSTANTS FIRST)               *)
(***************************************************************************)
roofXScales ==
    [double |-> 1000, triple |-> 1005, fourfold |-> 1010, fivefold |-> 1020, sixfold |-> 1030]

visibleAtStart ==
    {"normroofholder", "normroofglass", "normroof", "floor", "oneglassright", "oneglassleft",
     "twoglassholder", "twoglassholderbottom", "normroofholder ", "leftpillar", "rightpillar",
     "borderglassleft", "borderglassright", "lightsround", "doubleglasssliderleft",
     "doubleglasssliderright"}

alwaysVisibleStructural == {}

glassConfigs ==
  [double |->
      [borders |-> {"borderglassleft", "borderglassright"},
       holders |-> {"twoglassholder", "twoglassholderbottom"},
       glasses |-> {"oneglassleft", "oneglassright"},
       sliders |-> {"doubleglasssliderleft", "doubleglasssliderright"},
       singleGlasses |-> {"oneglassleft", "oneglassright"},
       grid |-> "griddouble",
       pillarScale |-> [x |-> 1000, y |-> 1000, z |-> 1000]],
    triple |->
      [borders |-> {"borderglasslefttriple", "borderglassmidtriple", "borderglassrighttriple"},
       holders |-> {"tripleglassholder", "tripleglassholderbottom"},
       glasses |-> {"tripleleftglass", "triplemidglass", "triplerightglass"},
       sliders |-> {"tripleglasssliderleft", "tripleglassslidermid", "tripleglasssliderright"},
       singleGlasses |-> {},
       grid |-> "gridtriple",
       pillarScale |-> [x |-> 1400, y |-> 1400, z |-> 1400]],
    fourfold |->
      [borders |-> {"borderglassfourleft", "borderglassfoursecond", "borderglassfourthird",
                    "borderglassfourright"},
       holders |-> {"fourglassholder", "fourglassholderbottom"},
       glasses |-> {"fourfirstglass", "foursecondglass", "fourthirdglass", "fourlastglass"},
       sliders |-> {"glasssliderfourleft", "glasssliderfoursecond", "glasssliderfourthird",
                    "glasssliderfourright"},
       singleGlasses |-> {},
       grid |-> "gridfourfold",
       pillarScale |-> [x |-> 1600, y |-> 1600, z |-> 1600]],
    fivefold |->
      [borders |-> {"borderglassfiveleft", "borderglassfivesecond", "borderglassfivethird",
                    "borderglassfivefourth", "borderglassfiveright"},
       holders |-> {"fiveglassholder", "fiveglassholderbottom"},
       glasses |-> {"fivefirstglass", "fivesecondglass", "fivethirdglass", "fivefourthglass", "fivelastglass"},
       sliders |-> {"glasssliderfiveleft", "glasssliderfivesecond", "glasssliderfivethird", "glasssliderfivefour",
                    "glasssliderfiveright"},
       singleGlasses |-> {},
       grid |-> "gridfivefold",
       pillarScale |-> [x |-> 1850, y |-> 1850, z |-> 1850]],
    sixfold |->
      [borders |-> {"borderglasssixleft", "borderglasssixsecond", "borderglasssixthird", "borderglasssixfourth",
                    "borderglasssixfifth", "borderglasssixright"},
       holders |-> {"sixglassholder", "sixglassholderbottom"},
       glasses |-> {"sixfirstglass", "sixsecondglass", "sixthirdglass", "sixfourthglass", "sixfifthglass",
                    "sixlastglass"},
       sliders |-> {"glasslidersixleft", "glassslidersixsecond", "glasslidersixthird", "glasslidersixfour",
                    "glasslidersixfifth", "glasslidersixright"},
       singleGlasses |-> {},
       grid |-> "gridsixfold",
       pillarScale |-> [x |-> 2200, y |-> 2100, z |-> 2100]]]

excludedFromFrameColor ==
    {"normroofglass", "backglass", "woodleft", "woodright", "lightsround", "lightsrect",
     "lightssquare", "roofpitchlightround", "roofpitchlightsrect", "roofpitchlightssquare",
     "roofpitchglass", "oneglassleft", "oneglassright", "tripleleftglass", "triplemidglass",
     "triplerightglass", "fourfirstglass", "foursecondglass", "fourthirdglass",
     "fourlastglass", "fivefirstglass", "fivesecondglass", "fivethirdglass", "fivefourthglass",
     "fivelastglass", "sixfirstglass", "sixsecondglass", "sixthirdglass", "sixfourthglass",
     "sixfifthglass", "sixlastglass", "doubleglasssliderleft", "doubleglasssliderright",
     "tripleglasssliderleft", "tripleglassslidermid", "tripleglasssliderright",
     "glasssliderfourleft", "glasssliderfoursecond", "glasssliderfourthird",
     "glasssliderfourright", "glasssliderfiveleft", "glasssliderfivesecond",
     "glasssliderfivethird", "glasssliderfivefour", "glasssliderfiveright",
     "glassslidersixleft", "glassslidersixsecond", "glassslidersixthird", "glassslidersixfour",
     "glassslidersixfifth", "glassslidersixright", "leftglass", "rightglass", "windowleftone",
     "windowlefttwo", "windowrightone", "windowrighttwo", "normawnfabric",
     "roofpitchawnfabric", "floor"}

StructuralMeshNames ==
    {"normroof", "pitchnormroof", "normroofglass", "normroofholder", "floor", "leftpillar",
     "rightpillar", "leftpiller", "rightpiller", "leftbackpiller", "rightbackpiller",
     "righbackpiller", "backglass", "backholder", "lightsround", "lightsrect",
     "lightssquare", "roofpitchbase", "roofpitchside", "roofpitchglass", "roofpitchshade",
     "roofpitchawn", "roofpitchawnfabric", "normawn", "normawnfabric", "metalleft",
     "metalholderleft", "woodleft", "woodholderleft", "windowwallleft", "windowleftone",
     "windowlefttwo", "windowleftholder2", "windowleftholder", "metalright",
     "metalholderright", "woodright", "woodholderright", "windowwallright",
     "windowrightone", "windowrighttwo", "windowrightholder2", "windowrightholder"}
NamesContaining_glass ==
    {"borderglassfivefourth", "borderglassfiveleft", "borderglassfiveright",
     "borderglassfivesecond", "borderglassfivethird", "borderglassfourleft",
     "borderglassfourright", "borderglassfoursecond", "borderglassfourthird",
     "borderglassleft", "borderglasslefttriple", "borderglassmidtriple",
     "borderglassright", "borderglassrighttriple", "borderglasssixfifth",
     "borderglasssixfourth", "borderglasssixleft", "borderglasssixright",
     "borderglasssixsecond", "borderglasssixthird", "doubleglasssliderleft",
     "doubleglasssliderright", "fivefirstglass", "fivefourthglass", "fiveglassholder",
     "fiveglassholderbottom", "fivelastglass", "fivesecondglass", "fivethirdglass",
     "fourfirstglass", "fourglassholder", "fourglassholderbottom", "fourlastglass",
     "foursecondglass", "fourthirdglass", "glasslidersixfifth", "glasslidersixfour",
     "glasslidersixleft", "glasslidersixright", "glasslidersixthird",
     "glasssliderfivefour", "glasssliderfiveleft", "glasssliderfiveright",
     "glasssliderfivesecond", "glasssliderfivethird", "glasssliderfourleft",
     "glasssliderfourright", "glasssliderfoursecond", "glasssliderfourthird",
     "glassslidersixsecond", "oneglassleft", "oneglassright", "sixfifthglass",
     "sixfirstglass", "sixfourthglass", "sixglassholder", "sixglassholderbottom",
     "sixlastglass", "sixsecondglass", "sixthirdglass", "tripleglassholder",
     "tripleglassholderbottom", "tripleglasssliderleft", "tripleglassslidermid",
     "tripleglasssliderright", "tripleleftglass", "triplemidglass", "triplerightglass",
     "twoglassholder", "twoglassholderbottom", "normroofglass", "backglass",
     "roofpitchglass"}
NamesContaining_holder ==
    {"fiveglassholder", "fiveglassholderbottom", "fourglassholder",
     "fourglassholderbottom", "sixglassholder", "sixglassholderbottom",
     "tripleglassholder", "tripleglassholderbottom", "twoglassholder",
     "twoglassholderbottom", "normroofholder", "backholder", "metalholderleft",
     "woodholderleft", "windowleftholder2", "windowleftholder", "metalholderright",
     "woodholderright", "windowrightholder2", "windowrightholder"}
NamesContaining_border ==
    {"borderglassfivefourth", "borderglassfiveleft", "borderglassfiveright",
     "borderglassfivesecond", "borderglassfivethird", "borderglassfourleft",
     "borderglassfourright", "borderglassfoursecond", "borderglassfourthird",
     "borderglassleft", "borderglasslefttriple", "borderglassmidtriple",
     "borderglassright", "borderglassrighttriple", "borderglasssixfifth",
     "borderglasssixfourth", "borderglasssixleft", "borderglasssixright",
     "borderglasssixsecond", "borderglasssixthird"}

GlassTypes == DOMAIN glassConfigs

\* [...config.borders, ...config.holders, ...config.glasses, ...config.sliders, config.grid]
ConfigParts(config) ==
    config.borders \cup config.holders \cup config.glasses \cup config.sliders \cup {config.grid}

\* every part of every family except double
allGlassObjects ==
    UNION {ConfigParts(glassConfigs[type]) : type \in GlassTypes \ {"double"}}

noDepthScaleObjects ==
    UNION {glassConfigs[type].holders : type \in GlassTypes}

(***************************************************************************)
(* The scene tree.  The asset itself (/ver.glb) is loaded at run time; the *)
(* meshes of the model are names the effect addresses: one part of each    *)
(* sub-category of every glass family as front, left (001) and right (002) *)
(* instance, and the structural, roof, awning, light and side-wall meshes. *)
(***************************************************************************)
GlassPartNames ==
    UNION {ConfigParts(glassConfigs[type]) \cup glassConfigs[type].singleGlasses : type \in GlassTypes}

Suffixes == {"", "001", "002"}

\* of each glass family: its first border, holder, panel and slider, and its grid
SceneGlassParts ==
    {"borderglassleft", "twoglassholder", "oneglassleft", "doubleglasssliderleft", "griddouble",
     "borderglasslefttriple", "tripleglassholder", "tripleleftglass", "tripleglasssliderleft",
     "gridtriple",
     "borderglassfourleft", "fourglassholder", "fourfirstglass", "glasssliderfourleft",
     "gridfourfold",
     "borderglassfiveleft", "fiveglassholder", "fivefirstglass", "glasssliderfiveleft",
     "gridfivefold",
     "borderglasssixleft", "sixglassholder", "sixfirstglass", "glasslidersixleft", "gridsixfold"}

Meshes ==
    {[base |-> b, sfx |-> ""] : b \in SceneGlassParts \cup StructuralMeshNames}
      \cup {[base |-> b, sfx |-> x] : b \in SceneGlassParts, x \in {"001", "002"}}

\* childNameLower === name
Is(n, name) == n.sfx = "" /\ n.base = name

\* names.includes(childNameLower), names.some(x => childNameLower === x.toLowerCase())
In(n, names) == n.sfx = "" /\ n.base \in names

\* child.name.endsWith('001'), child.name.endsWith('002')
isLeftObject(n) == n.sfx = "001"

isRightObject(n) == n.sfx = "002"

\* childNameLower.replace('001', ''), childNameLower.slice(0, -3)
baseName(n) == n.base

\* Materials: the asset's own material, and the ones the effect creates.
AssetMaterial ==
    [kind |-> "asset", color |-> "asset", opacity |-> 100, transmission |-> 0, emissive |-> "#000000",
     emissiveIntensity |-> 0]

Material006 == [AssetMaterial EXCEPT !.kind = "Material.006"]

\* meshes the asset binds to the shared material named Material.006
Material006Meshes == {"leftpiller", "rightpiller"}

AssetPosition == [y |-> 2500, z |-> 1200]

FreshMesh(n) ==
    [visible |-> TRUE,
     material |-> IF In(n, Material006Meshes) THEN Material006 ELSE AssetMaterial,
     scale |-> [x |-> 1000, y |-> 1000, z |-> 1000],
     rotationX |-> 0,
     position |-> AssetPosition,
     userData |-> [originalY |-> <<>>, originalZ |-> <<>>]]

FreshScene == [n \in Meshes |-> FreshMesh(n)]

getFrameColor(metalMaterial) ==
    CASE metalMaterial = "anthracite" -> "#28282d"
      [] metalMaterial = "black" -> "#000000"
      [] metalMaterial = "grey" -> "#808080"
      [] metalMaterial = "white" -> "#f5f5f5"
      [] OTHER -> "#28282d"

frameMaterial(c) ==
    [kind |-> "frame", color |-> getFrameColor(c.metalMaterial), opacity |-> 100, transmission |-> 0,
     emissive |-> "#000000", emissiveIntensity |-> 0]

GLASS_TINT_COLORS ==
    [clear |-> [color |-> "#ffffff", opacity |-> 30],
     lightgrey |-> [color |-> "#b0b0b0", opacity |-> 40],
     smokegrey |-> [color |-> "#707070", opacity |-> 50],
     bronze |-> [color |-> "#cd7f32", opacity |-> 45],
     green |-> [color |-> "#90c090", opacity |-> 40],
     blue |-> [color |-> "#a0c0e0", opacity |-> 40]]

getGlassMaterial(c) ==
    LET tintConfig == IF c.glassColor \in DOMAIN GLASS_TINT_COLORS
                        THEN GLASS_TINT_COLORS[c.glassColor]
                        ELSE GLASS_TINT_COLORS.clear
    IN  IF ~c.tintedGlassEnabled \/ c.glassColor = "clear"
          THEN [kind |-> "glass", color |-> "#ffffff", opacity |-> 30, transmission |-> 95,
                emissive |-> "#000000", emissiveIntensity |-> 0]
          ELSE [kind |-> "glass", color |-> tintConfig.color, opacity |-> tintConfig.opacity,
                transmission |-> 85, emissive |-> "#000000", emissiveIntensity |-> 0]

lightMaterial(c) ==
    LET lightEmissiveColor == IF c.timeOfDay = "night" THEN c.lightColor ELSE "#000000"
        lightIntensity == IF c.timeOfDay = "night" THEN 150 ELSE 0
    IN  [kind |-> "light",
         color |-> IF c.lightsOn
                     THEN (IF c.metalMaterial = "anthracite" THEN "#f5f5f5" ELSE "#28282d")
                     ELSE "#333333",
         opacity |-> IF c.lightsOn THEN 100 ELSE 30,
         transmission |-> 0,
         emissive |-> IF c.lightsOn THEN lightEmissiveColor ELSE "#000000",
         emissiveIntensity |-> IF c.lightsOn THEN lightIntensity ELSE 0]

initialBlackMaterial ==
    [kind |-> "black", color |-> "#000000ff", opacity |-> 100, transmission |-> 0,
     emissive |-> "#000000", emissiveIntensity |-> 0]

currentGlassConfig(c) ==
    IF c.glassType \in GlassTypes THEN glassConfigs[c.glassType] ELSE glassConfigs.double

currentRoofScaleX(c) ==
    IF c.glassType \in DOMAIN roofXScales THEN roofXScales[c.glassType] ELSE 1000

\* THREE.MathUtils.degToRad, in micro-radians
degToRad(deg) == (deg * 3141593) \div 180

(***************************************************************************)
(* STEP 3: a mesh still bound to Material.006 gets a clone of the black    *)
(* material (the clone carries the black material's name, not the old one) *)
(***************************************************************************)
UnbindMaterial006(n, s) ==
    IF s.material.kind = "Material.006" THEN [s EXCEPT !.material = initialBlackMaterial] ELSE s

(***************************************************************************)
(* STEP 4: the main traverse, one operator per section, in source order.   *)
(***************************************************************************)
backElementNames == {"leftbackpiller", "rightbackpiller", "righbackpiller", "backglass", "backholder"}

\* A. WALL-MOUNTED vs FREESTANDING
SectionA(n, s, c) ==
    IF c.verandaType = "wall-mounted"
      THEN LET v1 == IF In(n, backElementNames) THEN FALSE ELSE s.visible
               v2 == IF Is(n, "normroof") THEN FALSE ELSE v1
               v3 == IF Is(n, "pitchnormroof") THEN TRUE ELSE v2
           IN  [s EXCEPT !.visible = v3]
      ELSE IF c.verandaType = "freestanding"
        THEN LET v1 == IF In(n, backElementNames) THEN TRUE ELSE s.visible
                 v2 == IF Is(n, "normroof") THEN TRUE ELSE v1
                 v3 == IF Is(n, "pitchnormroof") THEN FALSE ELSE v2
             IN  [s EXCEPT !.visible = v3]
        ELSE s

\* B. PILLAR SCALING
SectionB(n, s, c) ==
    IF Is(n, "leftpillar") \/ Is(n, "rightpillar")
      THEN [s EXCEPT !.scale.x = currentGlassConfig(c).pillarScale.x]
      ELSE s

frontPillarNames == {"leftpiller", "rightpiller"}

\* C. STRUCTURAL PILLARS
SectionC(n, s, c) ==
    IF In(n, frontPillarNames) THEN [s EXCEPT !.visible = TRUE] ELSE s

\* variant of SectionD: without the special handling of the freestanding back elements
SectionDStartListOnly(n, s, c) ==
    IF In(n, allGlassObjects)
      THEN [s EXCEPT !.visible = FALSE]
      ELSE [s EXCEPT !.visible = In(n, visibleAtStart)]

\* D. INITIAL VISIBILITY SETUP
SectionD(n, s, c) ==
    IF In(n, allGlassObjects)
      THEN [s EXCEPT !.visible = FALSE]
      ELSE IF c.verandaType = "freestanding" /\ In(n, backElementNames)
             THEN [s EXCEPT !.visible = TRUE]
             ELSE [s EXCEPT !.visible = In(n, visibleAtStart)]

\* E. ALWAYS VISIBLE STRUCTURAL ELEMENTS
SectionE(n, s, c) ==
    IF In(n, alwaysVisibleStructural) THEN [s EXCEPT !.visible = TRUE] ELSE s

\* sideEnclosureTypes?.[side]?.material || 'glass'
SideMaterial(c, side) == OrElse(c.sideEnclosureTypes[side].material, "glass")

\* variant of SideGlassType: only the side being edited keeps its own glassType
SideGlassTypeOfSelected(c, side) ==
    IF c.selectedSide = side THEN OrElse(c.sideEnclosureTypes[side].glassType, c.glassType)
    ELSE c.glassType

\* sideEnclosureTypes[side]?.glassType || glassType
SideGlassType(c, side) == OrElse(c.sideEnclosureTypes[side].glassType, c.glassType)

leftMetalParts == {"metalleft", "metalholderleft"}

leftWoodParts == {"woodleft", "woodholderleft"}

leftWindowParts ==
    {"windowwallleft", "windowleftone", "windowlefttwo", "windowleftholder2", "windowleftholder"}

rightMetalParts == {"metalright", "metalholderright"}

rightWoodParts == {"woodright", "woodholderright"}

rightWindowParts ==
    {"windowwallright", "windowrightone", "windowrighttwo", "windowrightholder2", "windowrightholder"}

\* the body shared by sections F and G: hide the three part sets, show the selected one
EnclosureParts(n, s, enclosureType, metalParts, woodParts, windowParts) ==
    LET v1 == IF In(n, metalParts \cup woodParts \cup windowParts) THEN FALSE ELSE s.visible
        v2 == IF enclosureType = "metal"
                THEN (IF In(n, metalParts) THEN TRUE ELSE v1)
                ELSE IF enclosureType = "wood"
                  THEN (IF In(n, woodParts) THEN TRUE ELSE v1)
                  ELSE IF enclosureType = "window"
                    THEN (IF In(n, windowParts) THEN TRUE ELSE v1)
                    ELSE v1
    IN  [s EXCEPT !.visible = v2]

\* variant of SectionF: the left side's parts are resolved whether the enclosure is enabled or not
SectionFUngated(n, s, c) ==
    EnclosureParts(n, s, SideMaterial(c, "left"), leftMetalParts, leftWoodParts, leftWindowParts)

\* F. LEFT SIDE ENCLOSURES
SectionF(n, s, c) ==
    IF c.enclosureEnabled
      THEN EnclosureParts(n, s, SideMaterial(c, "left"), leftMetalParts, leftWoodParts, leftWindowParts)
      ELSE s

\* variant of SectionG: the right side's parts follow the left side's material
SectionGFollowsLeft(n, s, c) ==
    IF c.enclosureEnabled
      THEN EnclosureParts(n, s, SideMaterial(c, "left"), rightMetalParts, rightWoodParts,
                          rightWindowParts)
      ELSE s

\* G. RIGHT SIDE ENCLOSURES
SectionG(n, s, c) ==
    IF c.enclosureEnabled
      THEN EnclosureParts(n, s, SideMaterial(c, "right"), rightMetalParts, rightWoodParts,
                          rightWindowParts)
      ELSE s

\* variant of SideOf: the 002 suffix is not recognised, right instances count as front
SideOfLeftOnly(n) == IF isLeftObject(n) THEN "left" ELSE "front"

\* the side an object belongs to, from its suffix
SideOf(n) == IF isLeftObject(n) THEN "left" ELSE IF isRightObject(n) THEN "right" ELSE "front"

\* variant of isAnyGlassObject: the list that leaves the double family out is consulted
isAnyGlassObjectNonDouble(n) == baseName(n) \in allGlassObjects

\* is the object part of ANY glass configuration (by its clean name)
isAnyGlassObject(n) == baseName(n) \in GlassPartNames

\* variant of ShowGlassPart: a border of the target config is shown whatever the glassStyle
ShowGlassPartBordersAlways(n, s, c, targetConfig) ==
    LET isHolder == baseName(n) \in targetConfig.holders
        isPanel == baseName(n) \in targetConfig.glasses
        isBorder == baseName(n) \in targetConfig.borders
        isSlider == baseName(n) \in targetConfig.sliders
        isSingle == baseName(n) \in targetConfig.singleGlasses
        isGrid == baseName(n) = targetConfig.grid
        s1 == IF isHolder \/ isSlider \/ isBorder THEN [s EXCEPT !.visible = TRUE] ELSE s
        s2 == IF isPanel \/ isSingle
                THEN [s1 EXCEPT !.visible = TRUE, !.material = getGlassMaterial(c)]
                ELSE s1
        s4 == IF isGrid THEN [s2 EXCEPT !.visible = (c.glassStyle = "grid")] ELSE s2
    IN  IF isHolder \/ isPanel \/ isBorder \/ isSlider \/ isSingle \/ isGrid THEN s4 ELSE s

\* H. GLASS CONFIGURATION: the visibility logic for a part of the target config
ShowGlassPart(n, s, c, targetConfig) ==
    LET isHolder == baseName(n) \in targetConfig.holders
        isPanel == baseName(n) \in targetConfig.glasses
        isBorder == baseName(n) \in targetConfig.borders
        isSlider == baseName(n) \in targetConfig.sliders
        isSingle == baseName(n) \in targetConfig.singleGlasses
        isGrid == baseName(n) = targetConfig.grid
        s1 == IF isHolder \/ isSlider THEN [s EXCEPT !.visible = TRUE] ELSE s
        s2 == IF isPanel \/ isSingle
                THEN [s1 EXCEPT !.visible = TRUE, !.material = getGlassMaterial(c)]
                ELSE s1
        s3 == IF isBorder
                THEN [s2 EXCEPT !.visible = (c.glassStyle = "withframe" \/ c.glassStyle = "grid")]
                ELSE s2
        s4 == IF isGrid THEN [s3 EXCEPT !.visible = (c.glassStyle = "grid")] ELSE s3
    IN  IF isHolder \/ isPanel \/ isBorder \/ isSlider \/ isSingle \/ isGrid THEN s4 ELSE s

\* H. GLASS CONFIGURATION (STRICT SUFFIX LOGIC)
SectionH(n, s, c) ==
    IF c.enclosureEnabled
      THEN IF isAnyGlassObject(n)
             THEN LET hidden == [s EXCEPT !.visible = FALSE]
                      targetType == SideGlassType(c, SideOf(n))
                      targetMaterial == SideMaterial(c, SideOf(n))
                  IN  IF targetType \in GlassTypes /\ targetMaterial = "glass"
                        THEN ShowGlassPart(n, hidden, c, glassConfigs[targetType])
                        ELSE hidden
             ELSE s
      ELSE IF In(n, glassConfigs.double.holders \cup glassConfigs.double.glasses)
             THEN [s EXCEPT !.visible = TRUE]
             ELSE s

\* variant of flatRoofNames: the roof glass is left out of the meshes the pitched roof hides
flatRoofNamesWithoutGlass == {"normroof", "pitchnormroof"}

flatRoofNames == {"normroof", "normroofglass", "pitchnormroof"}

normalLights == {"lightsround", "lightsrect", "lightssquare"}

pitchedRoofNames == {"roofpitchbase", "roofpitchside", "roofpitchglass", "roofpitchshade"}

\* variant of SectionI: the flat branch leaves normroof and pitchnormroof as they are
SectionIFlatKeepsRoofMesh(n, s, c) ==
    IF c.roofPitchActive
      THEN LET angleRad == 0 - degToRad(c.roofPitchAngle)
               s1 == IF In(n, flatRoofNames) THEN [s EXCEPT !.visible = FALSE] ELSE s
               s2 == IF In(n, normalLights) THEN [s1 EXCEPT !.visible = FALSE] ELSE s1
               s3 == IF In(n, pitchedRoofNames) THEN [s2 EXCEPT !.visible = TRUE] ELSE s2
               s4 == IF Is(n, "roofpitchglass")
                       THEN [s3 EXCEPT !.scale.y = 1000 + (c.roofPitchAngle * 2500) \div 15,
                                       !.visible = TRUE]
                       ELSE s3
               s5 == IF Is(n, "roofpitchside")
                       THEN [s4 EXCEPT !.rotationX = angleRad,
                                       !.scale.z = 1000 + (c.roofPitchAngle * 100) \div 15]
                       ELSE s4
               s6 == IF Is(n, "roofpitchshade") THEN [s5 EXCEPT !.rotationX = angleRad] ELSE s5
           IN  s6
      ELSE LET s1 == IF In(n, pitchedRoofNames) THEN [s EXCEPT !.visible = FALSE] ELSE s
               s2 == IF Is(n, "normroofglass") THEN [s1 EXCEPT !.visible = TRUE] ELSE s1
           IN  s2

\* I. ROOF PITCH LOGIC
SectionI(n, s, c) ==
    IF c.roofPitchActive
      THEN LET angleRad == 0 - degToRad(c.roofPitchAngle)
               s1 == IF In(n, flatRoofNames) THEN [s EXCEPT !.visible = FALSE] ELSE s
               s2 == IF In(n, normalLights) THEN [s1 EXCEPT !.visible = FALSE] ELSE s1
               s3 == IF In(n, pitchedRoofNames) THEN [s2 EXCEPT !.visible = TRUE] ELSE s2
               s4 == IF Is(n, "roofpitchglass")
                       THEN [s3 EXCEPT !.scale.y = 1000 + (c.roofPitchAngle * 2500) \div 15,
                                       !.visible = TRUE]
                       ELSE s3
               s5 == IF Is(n, "roofpitchside")
                       THEN [s4 EXCEPT !.rotationX = angleRad,
                                       !.scale.z = 1000 + (c.roofPitchAngle * 100) \div 15]
                       ELSE s4
               s6 == IF Is(n, "roofpitchshade") THEN [s5 EXCEPT !.rotationX = angleRad] ELSE s5
           IN  s6
      ELSE LET s1 == IF In(n, pitchedRoofNames) THEN [s EXCEPT !.visible = FALSE] ELSE s
               s2 == IF Is(n, "normroofglass") THEN [s1 EXCEPT !.visible = TRUE] ELSE s1
               s3 == IF c.verandaType = "wall-mounted"
                       THEN (IF Is(n, "pitchnormroof") THEN [s2 EXCEPT !.visible = TRUE]
                             ELSE IF Is(n, "normroof") THEN [s2 EXCEPT !.visible = FALSE]
                             ELSE s2)
                       ELSE IF c.verandaType = "freestanding"
                         THEN (IF Is(n, "normroof") THEN [s2 EXCEPT !.visible = TRUE]
                               ELSE IF Is(n, "pitchnormroof") THEN [s2 EXCEPT !.visible = FALSE]
                               ELSE s2)
                         ELSE s2
           IN  s3

pitchAwningNames == {"roofpitchawn", "roofpitchawnfabric"}

flatAwningNames == {"normawn", "normawnfabric"}

BASE_Y_OFFSET == 20

Z_OFFSET == 0 - 20

\* variant of StoreOriginal: the position is captured on every run, not only the first
StoreOriginalEveryRun(s) ==
    [s EXCEPT !.userData.originalY = <<s.position.y>>,
              !.userData.originalZ = <<s.position.z>>]

\* if (child.userData.originalY === undefined) child.userData.originalY = child.position.y (and Z)
StoreOriginal(s) ==
    [s EXCEPT !.userData.originalY = IF @ = <<>> THEN <<s.position.y>> ELSE @,
              !.userData.originalZ = IF @ = <<>> THEN <<s.position.z>> ELSE @]

\* variant of SectionJ: the pitched awning is moved from where it stands, not from its original
SectionJFromCurrentPosition(n, s, c) ==
    LET angleRad == 0 - degToRad(c.roofPitchAngle)
    IN  IF c.roofAwningPosition = "top"
          THEN IF c.roofPitchActive
                 THEN IF In(n, pitchAwningNames)
                        THEN LET s1 == [s EXCEPT !.visible = TRUE, !.rotationX = angleRad,
                                                 !.scale.z = 1000]
                                 s2 == StoreOriginal(s1)
                                 upwardMovement == c.roofPitchAngle * 10
                             IN  [s2 EXCEPT
                                    !.position.y = s2.position.y + BASE_Y_OFFSET + upwardMovement,
                                    !.position.z = s2.position.z + Z_OFFSET]
                        ELSE IF In(n, flatAwningNames) THEN [s EXCEPT !.visible = FALSE] ELSE s
                 ELSE IF In(n, flatAwningNames)
                        THEN LET s1 == [s EXCEPT !.visible = TRUE, !.scale.z = 1000]
                                 s2 == StoreOriginal(s1)
                             IN  [s2 EXCEPT !.position.y = s2.userData.originalY[1],
                                            !.position.z = s2.userData.originalZ[1]]
                        ELSE IF In(n, pitchAwningNames) THEN [s EXCEPT !.visible = FALSE] ELSE s
          ELSE IF In(n, flatAwningNames \cup pitchAwningNames)
                 THEN [s EXCEPT !.visible = FALSE]
                 ELSE s

\* J. AWNING LOGIC
SectionJ(n, s, c) ==
    LET angleRad == 0 - degToRad(c.roofPitchAngle)
    IN  IF c.roofAwningPosition = "top"
          THEN IF c.roofPitchActive
                 THEN IF In(n, pitchAwningNames)
                        THEN LET s1 == [s EXCEPT !.visible = TRUE, !.rotationX = angleRad,
                                                 !.scale.z = 1000]
                                 s2 == StoreOriginal(s1)
                                 upwardMovement == c.roofPitchAngle * 10
                             IN  [s2 EXCEPT
                                    !.position.y = s2.userData.originalY[1] + BASE_Y_OFFSET
                                                     + upwardMovement,
                                    !.position.z = s2.userData.originalZ[1] + Z_OFFSET]
                        ELSE IF In(n, flatAwningNames) THEN [s EXCEPT !.visible = FALSE] ELSE s
                 ELSE IF In(n, flatAwningNames)
                        THEN LET s1 == [s EXCEPT !.visible = TRUE, !.scale.z = 1000]
                                 s2 == StoreOriginal(s1)
                             IN  [s2 EXCEPT !.position.y = s2.userData.originalY[1],
                                            !.position.z = s2.userData.originalZ[1]]
                        ELSE IF In(n, pitchAwningNames) THEN [s EXCEPT !.visible = FALSE] ELSE s
          ELSE IF In(n, flatAwningNames \cup pitchAwningNames)
                 THEN [s EXCEPT !.visible = FALSE]
                 ELSE s

\* variant of SectionK: the lights are not hidden first
SectionKWithoutReset(n, s, c) ==
    IF c.lightsOn /\ ~c.roofPitchActive
      THEN IF \/ c.lightShape = "circle" /\ Is(n, "lightsround")
              \/ c.lightShape = "rectangle" /\ Is(n, "lightsrect")
              \/ c.lightShape = "square" /\ Is(n, "lightssquare")
             THEN [s EXCEPT !.visible = TRUE, !.material = lightMaterial(c)]
             ELSE s
      ELSE s

\* K. LIGHTING LOGIC - ONLY FLAT ROOF LIGHTS
SectionK(n, s, c) ==
    LET s1 == IF In(n, normalLights) THEN [s EXCEPT !.visible = FALSE] ELSE s
    IN  IF c.lightsOn /\ ~c.roofPitchActive
          THEN IF \/ c.lightShape = "circle" /\ Is(n, "lightsround")
                  \/ c.lightShape = "rectangle" /\ Is(n, "lightsrect")
                  \/ c.lightShape = "square" /\ Is(n, "lightssquare")
                 THEN [s1 EXCEPT !.visible = TRUE, !.material = lightMaterial(c)]
                 ELSE s1
          ELSE s1

roofGlassObjects == {"normroofglass", "roofpitchglass"}

\* roof glass tinting
RoofGlassTint(n, s, c) ==
    IF In(n, roofGlassObjects) THEN [s EXCEPT !.material = getGlassMaterial(c)] ELSE s

backElements == {"leftbackpiller", "rightbackpiller", "righbackpiller", "backholder"}

\* variant of isGlassObject: the name is not inspected, only the exclusion list counts
isGlassObjectListOnly(n) == FALSE

\* childNameLower.includes('glass') && !includes('holder') && !includes('border')
isGlassObject(n) ==
    /\ n.base \in NamesContaining_glass
    /\ n.base \notin NamesContaining_holder
    /\ n.base \notin NamesContaining_border

\* L. FRAME COLOR APPLICATION
SectionL(n, s, c) ==
    IF In(n, backElements) /\ s.visible
      THEN [s EXCEPT !.material = frameMaterial(c)]
      ELSE LET isExcluded == In(n, excludedFromFrameColor)
               shouldGetFrameColor == ~isExcluded /\ ~isGlassObject(n)
           IN  IF s.visible /\ shouldGetFrameColor
                 THEN [s EXCEPT !.material = frameMaterial(c)]
                 ELSE s

\* depth / 3 with depth in millimetres, as a scale in thousandths
depthScale(c) == c.depth \div 3

depthScalingHolders ==
    {"twoglassholder", "twoglassholderbottom", "tripleglassholder", "tripleglassholderbottom",
     "fourglassholder", "fourglassholderbottom", "fiveglassholder", "fiveglassholderbottom",
     "sixglassholder", "sixglassholderbottom"}

\* STEP 5: COUNTER-SCALE GLASS HOLDERS
ScaleHolders(n, s, c) ==
    IF baseName(n) \in depthScalingHolders THEN [s EXCEPT !.scale.z = depthScale(c)] ELSE s

\* STEP 6: ROOF SCALING LOGIC
ScaleRoof(n, s, c) ==
    IF Is(n, "normroof")
      THEN [s EXCEPT !.scale = [x |-> 1000, y |-> 1000, z |-> currentRoofScaleX(c)]]
      ELSE IF In(n, {"normroofglass", "normroofholder"})
        THEN [s EXCEPT !.scale = [x |-> currentRoofScaleX(c), y |-> 1000, z |-> 1000]]
        ELSE s

\* variant of MainTraverse: section D, the initial visibility setup, is left out
MainTraverseWithoutD(n, s, c) ==
    LET a == SectionA(n, s, c)
        b == SectionB(n, a, c)
        cc == SectionC(n, b, c)
        e == SectionE(n, cc, c)
        f == SectionF(n, e, c)
        g == SectionG(n, f, c)
        h == SectionH(n, g, c)
        i == SectionI(n, h, c)
        j == SectionJ(n, i, c)
        k == SectionK(n, j, c)
        r == RoofGlassTint(n, k, c)
    IN  SectionL(n, r, c)

\* one mesh through the main traverse, sections A to L in order
MainTraverse(n, s, c) ==
    LET a == SectionA(n, s, c)
        b == SectionB(n, a, c)
        cc == SectionC(n, b, c)
        d == SectionD(n, cc, c)
        e == SectionE(n, d, c)
        f == SectionF(n, e, c)
        g == SectionG(n, f, c)
        h == SectionH(n, g, c)
        i == SectionI(n, h, c)
        j == SectionJ(n, i, c)
        k == SectionK(n, j, c)
        r == RoofGlassTint(n, k, c)
    IN  SectionL(n, r, c)

\* the effect's four traverses applied to one mesh
ResolveMesh(n, s, c) ==
    ScaleRoof(n, ScaleHolders(n, MainTraverse(n, UnbindMaterial006(n, s), c), c), c)

\* resolve(config, sceneTree): the whole effect
Resolve(sc, c) == [n \in Meshes |-> ResolveMesh(n, sc[n], c)]

\* STEP 2: modelRef.current.scale.set(widthScale, heightScale, depthScale)
ModelScale(c) == [x |-> c.width \div 3, y |-> c.height \div 3, z |-> c.depth \div 3]

(***************************************************************************)
(* PRICING SYSTEM.  Table prices (wholesale) are whole euros; retail       *)
(* values are held in euro cents.                                          *)
(***************************************************************************)
\* PRICE_MULTIPLIER = 2.21, in hundredths
PRICE_MULTIPLIER == 221

\* Math.round(num / den) for den > 0: the nearest integer, halves rounded up
MathRound(num, den) == (2 * num + den) \div (2 * den)

\* Math.round(price * PRICE_MULTIPLIER * 100) / 100, as cents
applyMultiplier(price) == MathRound(price * PRICE_MULTIPLIER * 100, 100)

CastorPolycarbonateRoofDepths ==
    2000 :> (3060 :> 780 @@ 4060 :> 920 @@ 5060 :> 1025 @@ 6060 :> 1150 @@ 7060 :> 1300
             @@ 8060 :> 1500 @@ 9060 :> 1800 @@ 10060 :> 1950) @@
    2500 :> (3060 :> 900 @@ 4060 :> 1050 @@ 5060 :> 1250 @@ 6060 :> 1425 @@ 7060 :> 1575
             @@ 8060 :> 1700 @@ 9060 :> 2100 @@ 10060 :> 2250) @@
    3000 :> (3060 :> 1050 @@ 4060 :> 1225 @@ 5060 :> 1400 @@ 6060 :> 1525 @@ 7060 :> 1700
             @@ 8060 :> 1825 @@ 9060 :> 2350 @@ 10060 :> 2600) @@
    3500 :> (3060 :> 1225 @@ 4060 :> 1375 @@ 5060 :> 1500 @@ 6060 :> 1700 @@ 7060 :> 1850
             @@ 8060 :> 2000 @@ 9060 :> 2450 @@ 10060 :> 2800) @@
    4000 :> (3060 :> 1350 @@ 4060 :> 1475 @@ 5060 :> 1650 @@ 6060 :> 1875 @@ 7060 :> 2000
             @@ 8060 :> 2150 @@ 9060 :> 2575 @@ 10060 :> 2950) @@
    5000 :> (3060 :> 1500 @@ 4060 :> 1850 @@ 5060 :> 2150 @@ 6060 :> 2450 @@ 7060 :> 2850
             @@ 8060 :> 3125 @@ 9060 :> 3325 @@ 10060 :> 3650) @@
    6000 :> (3060 :> 1850 @@ 4060 :> 2250 @@ 5060 :> 2700 @@ 6060 :> 3100 @@ 7060 :> 3550
             @@ 8060 :> 3950 @@ 9060 :> 4250 @@ 10060 :> 4500)

CastorGlassRoofDepths ==
    2000 :> (3060 :> 1275 @@ 4060 :> 1500 @@ 5060 :> 1700 @@ 6060 :> 1900 @@ 7060 :> 2150
             @@ 8060 :> 2350 @@ 9060 :> 2650 @@ 10060 :> 2900) @@
    2500 :> (3060 :> 1475 @@ 4060 :> 1675 @@ 5060 :> 1900 @@ 6060 :> 2100 @@ 7060 :> 2375
             @@ 8060 :> 2600 @@ 9060 :> 3000 @@ 10060 :> 3250) @@
    3000 :> (3060 :> 1650 @@ 4060 :> 1875 @@ 5060 :> 2100 @@ 6060 :> 2300 @@ 7060 :> 2600
             @@ 8060 :> 2870 @@ 9060 :> 3300 @@ 10060 :> 3550) @@
    3500 :> (3060 :> 1975 @@ 4060 :> 2300 @@ 5060 :> 2575 @@ 6060 :> 2900 @@ 7060 :> 3100
             @@ 8060 :> 3450 @@ 9060 :> 4000 @@ 10060 :> 4350) @@
    4000 :> (3060 :> 2200 @@ 4060 :> 2580 @@ 5060 :> 2850 @@ 6060 :> 3200 @@ 7060 :> 3500
             @@ 8060 :> 3800 @@ 9060 :> 4500 @@ 10060 :> 4900)

TitanPolycarbonateRoofDepths ==
    2000 :> (3060 :> 860 @@ 4060 :> 955 @@ 5060 :> 1125 @@ 6060 :> 1295 @@ 7060 :> 1525
             @@ 8060 :> 1635 @@ 9060 :> 1945 @@ 10060 :> 2030) @@
    2500 :> (3060 :> 935 @@ 4060 :> 1065 @@ 5060 :> 1255 @@ 6060 :> 1450 @@ 7060 :> 1610
             @@ 8060 :> 1745 @@ 9060 :> 2180 @@ 10060 :> 2295) @@
    3000 :> (3060 :> 1015 @@ 4060 :> 1165 @@ 5060 :> 1455 @@ 6060 :> 1575 @@ 7060 :> 1765
             @@ 8060 :> 1895 @@ 9060 :> 2385 @@ 10060 :> 2670) @@
    3500 :> (3060 :> 1205 @@ 4060 :> 1385 @@ 5060 :> 1560 @@ 6060 :> 1810 @@ 7060 :> 1965
             @@ 8060 :> 2090 @@ 9060 :> 2540 @@ 10060 :> 2880) @@
    4000 :> (3060 :> 1365 @@ 4060 :> 1570 @@ 5060 :> 1785 @@ 6060 :> 1965 @@ 7060 :> 2090
             @@ 8060 :> 2210 @@ 9060 :> 2695 @@ 10060 :> 3150) @@
    4500 :> (3060 :> 1620 @@ 4060 :> 1775 @@ 5060 :> 1985 @@ 6060 :> 2300 @@ 7060 :> 2590
             @@ 8060 :> 2890 @@ 9060 :> 3095 @@ 10060 :> 3620)

TitanGlassRoofClearDepths ==
    2000 :> (3060 :> 1260 @@ 4060 :> 1505 @@ 5060 :> 1755 @@ 6060 :> 1995 @@ 7060 :> 2245
             @@ 8060 :> 2460 @@ 9060 :> 2965 @@ 10060 :> 3285) @@
    2500 :> (3060 :> 1400 @@ 4060 :> 1655 @@ 5060 :> 1895 @@ 6060 :> 2125 @@ 7060 :> 2365
             @@ 8060 :> 2605 @@ 9060 :> 3140 @@ 10060 :> 3410) @@
    3000 :> (3060 :> 1630 @@ 4060 :> 1840 @@ 5060 :> 2190 @@ 6060 :> 2350 @@ 7060 :> 2895
             @@ 8060 :> 3050 @@ 9060 :> 3400 @@ 10060 :> 3800) @@
    3500 :> (3060 :> 2050 @@ 4060 :> 2285 @@ 5060 :> 2660 @@ 6060 :> 3050 @@ 7060 :> 3690
             @@ 8060 :> 3900 @@ 9060 :> 4150 @@ 10060 :> 4600) @@
    4000 :> (3060 :> 2440 @@ 4060 :> 2675 @@ 5060 :> 3050 @@ 6060 :> 3450 @@ 7060 :> 4060
             @@ 8060 :> 4700 @@ 9060 :> 5100 @@ 10060 :> 5280)

LedLightingSingle == 12

LedLightingSets ==
    6 :> 160 @@ 8 :> 180 @@ 10 :> 200 @@ 12 :> 220 @@ 14 :> 340 @@ 16 :> 360 @@ 18 :> 380

ZijwandPolycarbonate ==
    2000 :> 260 @@ 2500 :> 315 @@ 3000 :> 335 @@ 3500 :> 370 @@ 4000 :> 395 @@ 4500 :> 465 @@
    5000 :> 510

Abs(x) == IF x < 0 THEN 0 - x ELSE x

RECURSIVE SortAscending(_)
\* Object.keys(table).map(Number).sort((a, b) => a - b): the keys in ascending order
\* (Object.keys itself lists integer keys in ascending order)
SortAscending(keys) ==
    IF keys = {} THEN <<>>
    ELSE LET least == CHOOSE k \in keys : \A j \in keys : k <= j
         IN  <<least>> \o SortAscending(keys \ {least})

ObjectKeys(table) == SortAscending(DOMAIN table)

RECURSIVE ReduceFrom(_, _, _, _)
\* keys.reduce((prev, curr) => Math.abs(curr - target) < Math.abs(prev - target) ? curr : prev)
\* from position i on, with accumulator prev
ReduceFrom(keys, i, prev, target) ==
    IF i > Len(keys) THEN prev
    ELSE ReduceFrom(keys, i + 1,
                    IF Abs(keys[i] - target) < Abs(prev - target) THEN keys[i] ELSE prev,
                    target)

RECURSIVE ReduceFromLastWins(_, _, _, _)
\* the reduce with <= in place of <: of two equally near keys the later one wins
ReduceFromLastWins(keys, i, prev, target) ==
    IF i > Len(keys) THEN prev
    ELSE ReduceFromLastWins(keys, i + 1,
                            IF Abs(keys[i] - target) <= Abs(prev - target) THEN keys[i] ELSE prev,
                            target)

\* variant of reduceClosest: ties go to the higher key
reduceClosestLastWins(keys, target) == ReduceFromLastWins(keys, 2, keys[1], target)

reduceClosest(keys, target) == ReduceFrom(keys, 2, keys[1], target)

\* variant of findClosestDimension: the width is searched with the depth target
findClosestDimensionDepthTwice(dimensions, targetDepth, targetWidth) ==
    LET depthKeys == ObjectKeys(dimensions)
        closestDepth == reduceClosest(depthKeys, targetDepth)
        widthKeys == ObjectKeys(dimensions[closestDepth])
        closestWidth == reduceClosest(widthKeys, targetDepth)
    IN  [depth |-> closestDepth, width |-> closestWidth]

findClosestDimension(dimensions, targetDepth, targetWidth) ==
    LET depthKeys == ObjectKeys(dimensions)
        closestDepth == reduceClosest(depthKeys, targetDepth)
        widthKeys == ObjectKeys(dimensions[closestDepth])
        closestWidth == reduceClosest(widthKeys, targetWidth)
    IN  [depth |-> closestDepth, width |-> closestWidth]

\* the table calculateVerandaRoof selects for a model and roof type
RoofPricing(model, roofType) ==
    IF model = "castor"
      THEN (IF roofType = "polycarbonate" THEN CastorPolycarbonateRoofDepths
            ELSE CastorGlassRoofDepths)
      ELSE (IF roofType = "polycarbonate" THEN TitanPolycarbonateRoofDepths
            ELSE TitanGlassRoofClearDepths)

calculateVerandaRoof(config) ==
    LET pricing == RoofPricing(config.model, config.roofType)
        coords == findClosestDimension(pricing, config.depth, config.width)
        basePrice == pricing[coords.depth][coords.width]
    IN  [wholesale |-> basePrice,
         retail |-> applyMultiplier(basePrice),
         dimensions |-> [depth |-> config.depth, width |-> config.width]]

\* variant of calculateLEDLighting: only the sets table is consulted
calculateLEDLightingSetsOnly(lightCount) ==
    IF lightCount \in DOMAIN LedLightingSets
      THEN [wholesale |-> LedLightingSets[lightCount],
            retail |-> applyMultiplier(LedLightingSets[lightCount]),
            lightCount |-> lightCount]
      ELSE [error |-> "Invalid light count"]

calculateLEDLighting(lightCount) ==
    IF lightCount = 1
      THEN [wholesale |-> LedLightingSingle, retail |-> applyMultiplier(LedLightingSingle),
            lightCount |-> lightCount]
      ELSE IF lightCount \in DOMAIN LedLightingSets
        THEN [wholesale |-> LedLightingSets[lightCount],
              retail |-> applyMultiplier(LedLightingSets[lightCount]),
              lightCount |-> lightCount]
        ELSE [error |-> "Invalid light count"]

calculateSideWall(depth) ==
    LET availableDepths == ObjectKeys(ZijwandPolycarbonate)
        closestDepth == reduceClosest(availableDepths, depth)
        basePrice == ZijwandPolycarbonate[closestDepth]
    IN  IF basePrice = 0
          THEN [error |-> "Invalid depth"]
          ELSE [wholesale |-> basePrice, retail |-> applyMultiplier(basePrice),
                depth |-> closestDepth]

\* !component.error
NoError(component) == "error" \notin DOMAIN component

\* variant of Contribution: the wholesale value is added to both totals
ContributionWholesaleTwice(component) ==
    IF NoError(component)
      THEN [wholesale |-> component.wholesale, retail |-> component.wholesale]
      ELSE [wholesale |-> 0, retail |-> 0]

\* what a component adds to the totals
Contribution(component) ==
    IF NoError(component)
      THEN [wholesale |-> component.wholesale, retail |-> component.retail]
      ELSE [wholesale |-> 0, retail |-> 0]

\* results.enclosures is a map from the enabled sides to their side-wall price, results.lighting
\* is null (the empty sequence) or holds the lighting component
calculateCompleteVeranda(config) ==
    LET roof == calculateVerandaRoof(config)
        enclosures == [side \in {s \in {"left", "right"} : config.enclosures[s]} |->
                         calculateSideWall(config.depth)]
        lighting == IF config.lighting > 0 THEN <<calculateLEDLighting(config.lighting)>> ELSE <<>>
        left == IF "left" \in DOMAIN enclosures THEN Contribution(enclosures.left)
                ELSE [wholesale |-> 0, retail |-> 0]
        right == IF "right" \in DOMAIN enclosures THEN Contribution(enclosures.right)
                 ELSE [wholesale |-> 0, retail |-> 0]
        light == IF lighting # <<>> THEN Contribution(lighting[1])
                 ELSE [wholesale |-> 0, retail |-> 0]
    IN  [roof |-> roof,
         enclosures |-> enclosures,
         lighting |-> lighting,
         total |-> [wholesale |-> roof.wholesale + left.wholesale + right.wholesale + light.wholesale,
                    retail |-> roof.retail + left.retail + right.retail + light.retail]]

(***************************************************************************)
(* Configuration: the props of VerandaModel.  Lengths are in millimetres.  *)
(***************************************************************************)
DefaultSide == [material |-> "glass", glassType |-> "triple"]

\* the initial state of VerandaConfiguratorFinal (tussenwoning defaults)
DefaultConfig ==
    [verandaType |-> "wall-mounted",
     roofPitchActive |-> TRUE,
     roofPitchAngle |-> 0,
     roofAwningPosition |-> "none",
     metalMaterial |-> "anthracite",
     enclosureEnabled |-> TRUE,
     enclosureType |-> "glass",
     glassType |-> "triple",
     glassStyle |-> "withframe",
     selectedSide |-> "front",
     lightsOn |-> FALSE,
     lightShape |-> "circle",
     timeOfDay |-> "day",
     lightColor |-> "#ffd700",
     width |-> 5000,
     depth |-> 4500,
     height |-> 3000,
     sideEnclosureTypes |-> [front |-> DefaultSide, left |-> DefaultSide, right |-> DefaultSide],
     tintedGlassEnabled |-> FALSE,
     glassColor |-> "clear"]

\* value sets of the props; the last key of a set of keys is one no table knows
VerandaTypes == {"wall-mounted", "freestanding"}

PitchAngles == {0, 15}

AwningPositions == {"none", "top"}

MetalMaterials == {"anthracite", "black", "gold"}

GlassTypeKeys == GlassTypes \cup {"sevenfold"}

GlassStyles == {"withframe", "onlyglass", "grid"}

GlassColors == {"clear", "bronze", "purple"}

LightShapes == {"circle", "rectangle", "square"}

TimesOfDay == {"day", "night"}

Sides == {"front", "left", "right"}

SideMaterials == {"open", "glass", "metal", "wood", "window"}

\* the values a side's entry is changed to: the front between glass and one other material and
\* among all glass type keys, left and right among all materials and four glass type keys
SideMaterialChoices(side) == IF side = "front" THEN {"glass", "metal"} ELSE SideMaterials

SideGlassTypeChoices(side) ==
    IF side = "front" THEN GlassTypeKeys ELSE {"double", "triple", "sixfold", "sevenfold"}

Footprints ==
    {[width |-> 5000, depth |-> 4500, height |-> 3000],
     [width |-> 6500, depth |-> 5000, height |-> 3000]}

\* number of prop changes explored after the first render
MaxChanges == 2

(***************************************************************************)
(* The host component VerandaConfiguratorFinal: its state, the handlers    *)
(* that write sideEnclosureTypes, the glassType sync effect and the        *)
(* pricing useMemo.  An entry of sideEnclosureTypes is a {material,        *)
(* glassType} object or, after handleApplyAIConfig, a plain string: str    *)
(* holds the string, material and glassType the object's properties        *)
(* (undefined on a string).                                                *)
(***************************************************************************)
SideEntry(material, glassType) == [str |-> Undefined, material |-> material, glassType |-> glassType]

StringEntry(value) == [str |-> value, material |-> Undefined, glassType |-> Undefined]

\* { ...entry }: spreading a string gives its characters, none of them a property read later
Spread(entry) == [entry EXCEPT !.str = Undefined]

NoSide == "null"

HOUSE_TYPE_DEFAULTS ==
    [tussenwoning |-> [width |-> 5000, depth |-> 4500, enclosureEnabled |-> TRUE,
                       selectedSide |-> "front", glassType |-> "triple"],
     hoekwoning |-> [width |-> 5500, depth |-> 4500, enclosureEnabled |-> TRUE,
                     selectedSide |-> "front", glassType |-> "fourfold"],
     vrijstaand |-> [width |-> 6500, depth |-> 5000, enclosureEnabled |-> TRUE,
                     selectedSide |-> "front", glassType |-> "sixfold"]]

HostDefault ==
    [width |-> 5000, depth |-> 4500, enclosureEnabled |-> TRUE, enclosureType |-> "glass",
     glassType |-> "triple", selectedSide |-> "front", lightsOn |-> FALSE,
     sideEnclosureTypes |-> [side \in Sides |-> SideEntry("glass", "triple")]]

\* the props the host's render hands to VerandaModel, whose effect resolves them: the host
\* state of the render, and the initial value of what no handler of the host model writes
VerandaModelProps(h) ==
    [DefaultConfig EXCEPT !.enclosureType = h.enclosureType,
                          !.enclosureEnabled = h.enclosureEnabled,
                          !.selectedSide = h.selectedSide,
                          !.lightsOn = h.lightsOn,
                          !.glassType = h.glassType,
                          !.width = h.width,
                          !.depth = h.depth,
                          !.sideEnclosureTypes = h.sideEnclosureTypes]

\* variant of HostPriceConfig: a side counts whenever its entry is not 'none', gate or no gate
HostPriceConfigUngated(h) ==
    [model |-> "castor", depth |-> h.depth, width |-> h.width, roofType |-> "polycarbonate",
     enclosures |-> [left |-> h.sideEnclosureTypes.left.str # "none",
                     right |-> h.sideEnclosureTypes.right.str # "none"],
     lighting |-> IF h.lightsOn THEN 10 ELSE 0]

\* the config the pricing useMemo builds from the host state
HostPriceConfig(h) ==
    [model |-> "castor", depth |-> h.depth, width |-> h.width, roofType |-> "polycarbonate",
     enclosures |-> [left |-> h.enclosureEnabled /\ h.sideEnclosureTypes.left.str # "none",
                     right |-> h.enclosureEnabled /\ h.sideEnclosureTypes.right.str # "none"],
     lighting |-> IF h.lightsOn THEN 10 ELSE 0]

HostPricing(h) == calculateCompleteVeranda(HostPriceConfig(h))

\* configurations handed to handleApplyAIConfig: the assistant's default, answers of the model
\* naming a side and an enclosure type, and the questionnaire's open configuration
AppliedConfigs ==
    {[width |-> 5500, depth |-> 4500, glassType |-> "triple", lightsOn |-> FALSE,
      enclosureEnabled |-> TRUE, selectedSide |-> "front", enclosureType |-> "glass"],
     [width |-> 5500, depth |-> 4500, glassType |-> "triple", lightsOn |-> FALSE,
      enclosureEnabled |-> TRUE, selectedSide |-> "front", enclosureType |-> "metal"],
     [width |-> 7000, depth |-> 3500, glassType |-> "sixfold", lightsOn |-> TRUE,
      enclosureEnabled |-> TRUE, selectedSide |-> "left", enclosureType |-> "metal"],
     [width |-> 5500, depth |-> 4500, glassType |-> "triple", lightsOn |-> FALSE,
      enclosureEnabled |-> TRUE, selectedSide |-> "left", enclosureType |-> "none"],
     [width |-> 5500, depth |-> 4500, glassType |-> "double", lightsOn |-> FALSE,
      enclosureEnabled |-> FALSE, selectedSide |-> NoSide, enclosureType |-> "glass"]}

\* materials and glass types the panel's buttons and selector offer
PanelMaterials == {"glass", "metal", "wood", "window"}

PanelGlassTypes == {"double", "triple", "sixfold"}

\* number of host handler calls explored
MaxHostSteps == 4

HostInit ==
    /\ host = HostDefault
    /\ syncPending = FALSE
    /\ lastChange = <<>>
    /\ hostPricing = HostPricing(HostDefault)
    /\ hostSteps = 0

\* a handler has set the state to h: the component renders again (the useMemo recomputes) and
\* the glassType effect is scheduled when glassType changed
HostWrite(h, change) ==
    /\ ~syncPending
    /\ hostSteps < MaxHostSteps
    /\ host' = h
    /\ syncPending' = (h.glassType # host.glassType)
    /\ lastChange' = change
    /\ hostPricing' = HostPricing(h)
    /\ hostSteps' = hostSteps + 1

\* a handler called from the panel: nothing outside the host changes
HostUpdate(h, change) == HostWrite(h, change) /\ UNCHANGED outsideHost

PerSideChange(side) == <<[side |-> side, before |-> host.sideEnclosureTypes]>>

handleSideSelect ==
    \E sideId \in Sides :
        HostUpdate([host EXCEPT !.selectedSide = IF @ = sideId THEN NoSide ELSE sideId], <<>>)

\* the material buttons: shown for a selected side, all but Glass disabled for the front
handleMaterialChange ==
    /\ host.selectedSide # NoSide
    /\ \E material \in PanelMaterials :
          /\ material # "glass" => host.selectedSide # "front"
          /\ LET side == host.selectedSide
                 prev == host.sideEnclosureTypes[side]
             IN  HostUpdate([host EXCEPT !.sideEnclosureTypes[side] =
                                [Spread(prev) EXCEPT !.material = material,
                                                     !.glassType = OrElse(prev.glassType, "double")]],
                            PerSideChange(side))

\* the glass type selector: rendered only when the selected side's material is glass
handleGlassTypeChange ==
    /\ host.selectedSide # NoSide
    /\ host.sideEnclosureTypes[host.selectedSide].material = "glass"
    /\ \E newGlassType \in PanelGlassTypes :
          LET side == host.selectedSide
              prev == host.sideEnclosureTypes[side]
              h1 == [host EXCEPT !.sideEnclosureTypes[side] =
                        [Spread(prev) EXCEPT !.glassType = newGlassType]]
          IN  HostUpdate(IF side = "front" THEN [h1 EXCEPT !.glassType = newGlassType] ELSE h1,
                         PerSideChange(side))

handleHouseTypeChange ==
    \E newType \in DOMAIN HOUSE_TYPE_DEFAULTS :
        LET defaults == HOUSE_TYPE_DEFAULTS[newType]
        IN  HostUpdate([host EXCEPT !.width = defaults.width, !.depth = defaults.depth,
                                    !.enclosureEnabled = defaults.enclosureEnabled,
                                    !.selectedSide = defaults.selectedSide,
                                    !.glassType = defaults.glassType], <<>>)

\* the state handleApplyAIConfig(config) leaves
ApplyAIConfig(h, config) ==
    LET h1 == [h EXCEPT !.width = config.width, !.depth = config.depth,
                        !.glassType = config.glassType, !.lightsOn = config.lightsOn,
                        !.enclosureEnabled = config.enclosureEnabled,
                        !.selectedSide = config.selectedSide,
                        !.enclosureType = config.enclosureType]
    IN  IF config.selectedSide # NoSide
        THEN [h1 EXCEPT !.sideEnclosureTypes[config.selectedSide] =
                            StringEntry(config.enclosureType)]
        ELSE h1

handleApplyAIConfig ==
    \E config \in AppliedConfigs : HostUpdate(ApplyAIConfig(host, config), <<>>)

ToggleEnclosureEnabled == HostUpdate([host EXCEPT !.enclosureEnabled = ~@], <<>>)

ToggleLightsOn == HostUpdate([host EXCEPT !.lightsOn = ~@], <<>>)

\* useEffect(..., [glassType]): every side's glassType is set to the global glassType
GlassTypeSyncEffect ==
    /\ syncPending
    /\ LET h == [host EXCEPT !.sideEnclosureTypes =
                    [side \in Sides |-> [Spread(host.sideEnclosureTypes[side])
                                            EXCEPT !.glassType = host.glassType]]]
       IN  /\ host' = h
           /\ hostPricing' = HostPricing(h)
    /\ syncPending' = FALSE
    /\ UNCHANGED <<lastChange, hostSteps, outsideHost>>

HostNext ==
    \/ handleSideSelect
    \/ handleMaterialChange
    \/ handleGlassTypeChange
    \/ handleHouseTypeChange
    \/ handleApplyAIConfig
    \/ ToggleEnclosureEnabled
    \/ ToggleLightsOn
    \/ GlassTypeSyncEffect

(***************************************************************************)
(* AIAssistantModal: processVoiceInput and callGeminiAPI.  A request is    *)
(* in flight from the call of processVoiceInput until fetch settles; what  *)
(* the service does with it is chosen when it settles.                     *)
(***************************************************************************)
getDefaultConfig ==
    [width |-> 5500, depth |-> 4500, glassType |-> "triple", lightsOn |-> FALSE,
     enclosureEnabled |-> TRUE, selectedSide |-> "front", enclosureType |-> "glass"]

\* what can happen to one call: no API key, fetch rejects, a status that is not OK, a body
\* without candidates, a candidate without parts, a text that is not JSON, a JSON object
\* (whose metalMaterial is a string, or is not)
FailureKinds ==
    {"missing_key", "network_error", "not_found", "server_error", "no_candidates", "no_parts",
     "not_json"}

GeminiOutcomes ==
    {[kind |-> k, config |-> getDefaultConfig] : k \in FailureKinds} \cup
    {[kind |-> k, config |-> c] : k \in {"json", "json_frame_not_string"}, c \in AppliedConfigs}

Thrown(message) == [threw |-> TRUE, message |-> message]

\* the body of the try block of callGeminiAPI: what it returns or throws
GeminiRequest(outcome) ==
    CASE outcome.kind = "network_error" -> Thrown("Failed to fetch")
      [] outcome.kind = "not_found" -> Thrown("Model gemini-2.5-flash not found.")
      [] outcome.kind = "server_error" -> Thrown("API Error 500")
      [] outcome.kind = "no_candidates" -> Thrown("Invalid response structure from Gemini")
      [] outcome.kind = "no_parts" -> Thrown("Cannot read properties of undefined")
      [] outcome.kind = "not_json" -> Thrown("Unexpected token")
      [] OTHER -> [threw |-> FALSE, success |-> TRUE, config |-> outcome.config,
                   frameIsString |-> outcome.kind = "json"]

GeminiFailure(message) ==
    [threw |-> FALSE, success |-> FALSE, error |-> message, fallbackConfig |-> getDefaultConfig]

\* variant of callGeminiAPI: no catch around the request
callGeminiAPIUncaught(outcome) ==
    IF outcome.kind = "missing_key" THEN GeminiFailure("API key not configured.")
    ELSE GeminiRequest(outcome)

callGeminiAPI(outcome) ==
    IF outcome.kind = "missing_key" THEN GeminiFailure("API key not configured.")
    ELSE LET result == GeminiRequest(outcome)
         IN  IF result.threw THEN GeminiFailure(result.message) ELSE result

MaxRequests == 2

AssistantInit ==
    /\ aiResponse = ""
    /\ inFlight = {}
    /\ requests = 0
    /\ aiGeneratedConfig = <<>>
    /\ conversationHistory = <<>>
    /\ lastCall = <<>>
    /\ applied = <<>>

\* processVoiceInput up to its await: the pending text is shown and the request leaves with
\* the conversation history of this render
processVoiceInput ==
    /\ requests < MaxRequests
    /\ requests' = requests + 1
    /\ aiResponse' = "understanding"
    /\ inFlight' = inFlight \cup {[id |-> requests + 1, history |-> conversationHistory]}
    /\ UNCHANGED <<aiGeneratedConfig, conversationHistory, lastCall, applied>>
    /\ UNCHANGED outsideAssistant

\* the rest of processVoiceInput, once callGeminiAPI has settled
VoiceInputSettled ==
    \E request \in inFlight, outcome \in GeminiOutcomes :
        LET result == callGeminiAPI(outcome)
            newHistory == Append(request.history, [role |-> "user", id |-> request.id])
            done(response) == [id |-> request.id, outcome |-> outcome.kind, result |-> result,
                               aiResponse |-> response]
        IN  /\ inFlight' = inFlight \ {request}
            /\ UNCHANGED requests
            /\ IF result.threw
               THEN \* callGeminiAPI threw: the catch of processVoiceInput
                    /\ aiResponse' = "sorry"
                    /\ lastCall' = <<done("sorry")>>
                    /\ UNCHANGED <<aiGeneratedConfig, conversationHistory, applied>>
                    /\ UNCHANGED <<hostVars, sceneVars, priceVars, cameraVars, interpreterVars>>
               ELSE IF ~result.success
               THEN /\ aiGeneratedConfig' = <<result.fallbackConfig>>
                    /\ aiResponse' = "fallback"
                    /\ conversationHistory' =
                           Append(newHistory, [role |-> "assistant", id |-> request.id])
                    /\ lastCall' = <<done("fallback")>>
                    /\ UNCHANGED applied
                    /\ UNCHANGED <<hostVars, sceneVars, priceVars, cameraVars, interpreterVars>>
               ELSE IF ~result.frameIsString
               THEN \* config.metalMaterial.charAt throws: the catch of processVoiceInput
                    /\ aiGeneratedConfig' = <<result.config>>
                    /\ aiResponse' = "sorry"
                    /\ lastCall' = <<done("sorry")>>
                    /\ UNCHANGED <<conversationHistory, applied>>
                    /\ UNCHANGED <<hostVars, sceneVars, priceVars, cameraVars, interpreterVars>>
               ELSE /\ aiGeneratedConfig' = <<result.config>>
                    /\ aiResponse' = "recommendation"
                    /\ HostWrite(ApplyAIConfig(host, result.config), <<>>)
                    /\ conversationHistory' =
                           Append(newHistory, [role |-> "assistant", id |-> request.id])
                    /\ lastCall' = <<done("recommendation")>>
                    /\ applied' = Append(applied, request.id)
                    /\ UNCHANGED <<sceneVars, priceVars, cameraVars, interpreterVars>>

\* the Apply Configuration button
ApplyConfiguration ==
    /\ aiResponse # ""
    /\ aiGeneratedConfig # <<>>
    /\ HostWrite(ApplyAIConfig(host, aiGeneratedConfig[1]), <<>>)
    /\ UNCHANGED assistantVars
    /\ UNCHANGED <<sceneVars, priceVars, cameraVars, interpreterVars>>

AssistantNext ==
    \/ processVoiceInput
    \/ VoiceInputSettled
    \/ ApplyConfiguration
    \/ GlassTypeSyncEffect

(***************************************************************************)
(* interpretUserInput, the rule-based interpreter of free text. A text is  *)
(* a string, a regular expression is the matcher it denotes, positions are *)
(* 1-based, and lengths are millimetres.                                   *)
(***************************************************************************)
LowerLetters == "abcdefghijklmnopqrstuvwxyz"

UpperLetters == "ABCDEFGHIJKLMNOPQRSTUVWXYZ"

DigitString == "0123456789"

CharsOf(s) == {SubSeq(s, i, i) : i \in 1..Len(s)}

\* \d
DigitChars == CharsOf(DigitString)

\* \w
WordChars == CharsOf(LowerLetters) \cup CharsOf(UpperLetters) \cup DigitChars \cup {"_"}

\* \s, as far as the texts use it
SpaceChars == {" ", "\t", "\n", "\r"}

\* what . does not match
LineTerminators == {"\n", "\r"}

\* the character at a position, "" outside the text
CharAt(s, i) == IF i >= 1 /\ i <= Len(s) THEN SubSeq(s, i, i) ELSE ""

IndexIn(s, c) == CHOOSE i \in 1..Len(s) : SubSeq(s, i, i) = c

\* String.prototype.toLowerCase on the letters A..Z
RECURSIVE toLowerCase(_)
toLowerCase(s) ==
    IF s = "" THEN ""
    ELSE LET c == SubSeq(s, 1, 1)
             lower == IF c \in CharsOf(UpperLetters)
                      THEN CharAt(LowerLetters, IndexIn(UpperLetters, c))
                      ELSE c
         IN  lower \o toLowerCase(SubSeq(s, 2, Len(s)))

\* \b before position i
Boundary(s, i) == (CharAt(s, i - 1) \in WordChars) # (CharAt(s, i) \in WordChars)

\* the literal w matches at position i
StartsAt(s, i, w) == i + Len(w) - 1 <= Len(s) /\ SubSeq(s, i, i + Len(w) - 1) = w

\* String.prototype.substring(from, to) with 0-based bounds inside the text
substring(s, from, to) == SubSeq(s, from + 1, to)

\* an unanchored literal: /w/.test(s)
Contains(s, w) == \E i \in 1..Len(s) : StartsAt(s, i, w)

\* a word of a pattern is a sequence of literals with .? between them: dark.?grey is
\* <<"dark", "grey">>; the positions after the matches of parts k.. that start at i
RECURSIVE PartsEnds(_, _, _, _)
PartsEnds(s, i, parts, k) ==
    IF ~StartsAt(s, i, parts[k]) THEN {}
    ELSE LET after == i + Len(parts[k])
         IN  IF k = Len(parts) THEN {after}
             ELSE PartsEnds(s, after, parts, k + 1)
                      \cup (IF CharAt(s, after) \notin LineTerminators \cup {""}
                            THEN PartsEnds(s, after + 1, parts, k + 1)
                            ELSE {})

Words(literals) == {<<w>> : w \in literals}

\* /\b(word|word|...)\b/.test(s)
TestWords(s, words) ==
    \E i \in 1..Len(s) :
        /\ Boundary(s, i)
        /\ \E w \in words : \E e \in PartsEnds(s, i, w, 1) : Boundary(s, e)

\* /\b(head|...).*(tail|...)\b/.test(s)
TestHeadTail(s, heads, tails) ==
    \E i \in 1..Len(s) :
        /\ Boundary(s, i)
        /\ \E h \in heads :
               /\ StartsAt(s, i, h)
               /\ \E j \in (i + Len(h))..Len(s) :
                      /\ \A k \in (i + Len(h))..(j - 1) : CharAt(s, k) \notin LineTerminators
                      /\ \E t \in tails : StartsAt(s, j, t) /\ Boundary(s, j + Len(t))

MinOf(a, b) == IF a < b THEN a ELSE b

MaxOf(a, b) == IF a > b THEN a ELSE b

\* the position after the longest run of the given characters that starts at i
RunEnd(s, i, chars) ==
    CHOOSE e \in i..(Len(s) + 1) :
        /\ \A k \in i..(e - 1) : CharAt(s, k) \in chars
        /\ CharAt(s, e) \notin chars

\* the positions from, from - 1, .., to
Descending(from, to) == [k \in 1..(from - to + 1) |-> from - k + 1]

\* elements of a pattern: a group of literal alternatives, \s* and \s+, a literal that
\* may be absent, and the captures \d+ and \d+(?:\.\d+)?
Lit(alts) == [kind |-> "lit", alts |-> alts, min |-> 1]

Optional(alts) == [kind |-> "lit", alts |-> alts, min |-> 0]

SpaceRun(min) == [kind |-> "space", alts |-> <<>>, min |-> min]

Integer == [kind |-> "int", alts |-> <<>>, min |-> 1]

Number == [kind |-> "num", alts |-> <<>>, min |-> 1]

\* (?:m|meter|metre|meters|metres)
Unit == Lit(<<"m", "meter", "metre", "meters", "metres">>)

OptionalUnit == Optional(<<"m", "meter", "metre", "meters", "metres">>)

\* the positions after the matches of one element at i, in the order a backtracking
\* matcher tries them: alternatives left to right, quantifiers longest first
ElementEnds(s, i, el) ==
    CASE el.kind = "lit" ->
             LET hits == SelectSeq(el.alts, LAMBDA w : StartsAt(s, i, w))
                 ends == [n \in 1..Len(hits) |-> i + Len(hits[n])]
             IN  IF el.min = 0 THEN ends \o <<i>> ELSE ends
      [] el.kind = "space" -> Descending(RunEnd(s, i, SpaceChars), i + el.min)
      [] el.kind = "int" -> Descending(RunEnd(s, i, DigitChars), i + 1)
      [] el.kind = "num" ->
             LET d == RunEnd(s, i, DigitChars)
                 f == IF d > i /\ CharAt(s, d) = "." THEN RunEnd(s, d + 1, DigitChars) ELSE d
             IN  Descending(f, d + 2) \o Descending(d, i + 1)

\* the first match of the elements k.. of a pattern at position i, as <<[end, captures]>>,
\* or <<>> when there is none
RECURSIVE MatchFrom(_, _, _, _)
RECURSIVE TryEnds(_, _, _, _, _, _)
MatchFrom(s, i, pattern, k) ==
    IF k > Len(pattern) THEN <<[end |-> i, captures |-> <<>>]>>
    ELSE TryEnds(s, i, pattern, k, ElementEnds(s, i, pattern[k]), 1)

TryEnds(s, i, pattern, k, ends, n) ==
    IF n > Len(ends) THEN <<>>
    ELSE LET rest == MatchFrom(s, ends[n], pattern, k + 1)
         IN  IF rest = <<>> THEN TryEnds(s, i, pattern, k, ends, n + 1)
             ELSE <<[end |-> rest[1].end,
                     captures |-> IF pattern[k].kind \in {"int", "num"}
                                  THEN <<SubSeq(s, i, ends[n] - 1)>> \o rest[1].captures
                                  ELSE rest[1].captures]>>

\* String.prototype.matchAll with a global pattern: the matches from left to right, each
\* with its 0-based index, the matched text and the captures
RECURSIVE matchAllFrom(_, _, _)
matchAllFrom(s, pattern, from) ==
    IF from > Len(s) THEN <<>>
    ELSE LET m == MatchFrom(s, from, pattern, 1)
         IN  IF m = <<>> THEN matchAllFrom(s, pattern, from + 1)
             ELSE <<[index |-> from - 1, text |-> SubSeq(s, from, m[1].end - 1),
                     captures |-> m[1].captures]>>
                      \o matchAllFrom(s, pattern, IF m[1].end > from THEN m[1].end ELSE from + 1)

matchAll(s, pattern) == matchAllFrom(s, pattern, 1)

RECURSIVE DigitsValue(_)
DigitsValue(t) ==
    IF t = "" THEN 0
    ELSE DigitsValue(SubSeq(t, 1, Len(t) - 1)) * 10 + IndexIn(DigitString, SubSeq(t, Len(t), Len(t))) - 1

\* parseFloat of a capture (digits, or digits.digits), in thousandths; the texts carry
\* at most three decimals
parseFloat(t) ==
    LET whole == SubSeq(t, 1, RunEnd(t, 1, DigitChars) - 1)
        decimals == SubSeq(t, Len(whole) + 2, Len(t))
    IN  DigitsValue(whole) * 1000 + DigitsValue(SubSeq(decimals \o "000", 1, 3))

RECURSIVE ToDigits(_)
ToDigits(n) ==
    IF n < 10 THEN CharAt(DigitString, n + 1)
    ELSE ToDigits(n \div 10) \o CharAt(DigitString, (n % 10) + 1)

\* a length in a template literal: 7000 is "7", 5500 is "5.5"
NumberText(mm) ==
    LET fraction == mm % 1000
        padded == SubSeq("00", 1, IF fraction < 10 THEN 2 ELSE IF fraction < 100 THEN 1 ELSE 0)
                      \o ToDigits(fraction)
        kept == CHOOSE n \in 1..3 :
                    /\ CharAt(padded, n) # "0"
                    /\ \A k \in (n + 1)..3 : CharAt(padded, k) = "0"
    IN  IF fraction = 0 THEN ToDigits(mm \div 1000)
        ELSE ToDigits(mm \div 1000) \o "." \o SubSeq(padded, 1, kept)

\* the config interpretUserInput starts from
InterpreterDefaults ==
    [width |-> 5500, depth |-> 4500, height |-> 3000,
     roofPitchActive |-> FALSE, roofPitchAngle |-> 0,
     metalMaterial |-> "anthracite",
     enclosureEnabled |-> TRUE, enclosureType |-> "glass",
     glassType |-> "double", glassStyle |-> "withframe",
     selectedSide |-> "front",
     lightsOn |-> FALSE, lightShape |-> "circle",
     verandaType |-> "wall-mounted"]

\* the locals of a call at its start; extractedWidth, extractedDepth and extractedHeight
\* are 0 for null
InterpreterStart ==
    [config |-> InterpreterDefaults, reasoning |-> <<>>, keyFeatures |-> <<>>,
     glassDetected |-> FALSE, extractedWidth |-> 0, extractedDepth |-> 0]

\* Object.entries(colorPatterns), without the pattern over Cyrillic letters
colorPatterns ==
    <<[value |-> "white", patterns |-> Words({"white", "wit"})],
      [value |-> "black", patterns |-> Words({"black", "zwart"})],
      [value |-> "grey", patterns |-> Words({"grey", "gray", "grijs", "silver"})],
      [value |-> "anthracite",
       patterns |-> {<<"anthracite">>, <<"dark", "grey">>, <<"charcoal">>}]>>

\* STEP 1: the first colour of colorPatterns with a matching pattern, else the style words
FrameColorDetection(inputLower, st) ==
    LET detected == SelectSeq(colorPatterns, LAMBDA c : TestWords(inputLower, c.patterns))
    IN  IF detected # <<>>
        THEN [st EXCEPT !.config.metalMaterial = detected[1].value,
                        !.reasoning = Append(@, "Detected " \o detected[1].value \o " frame color"),
                        !.keyFeatures = Append(@, detected[1].value \o " frame")]
        ELSE IF TestWords(inputLower, Words({"modern", "contemporary", "sleek", "minimalist"}))
        THEN [st EXCEPT !.config.metalMaterial = "black",
                        !.reasoning = Append(@, "Modern style -> black frame")]
        ELSE IF TestWords(inputLower, Words({"traditional", "classic", "timeless"}))
        THEN [st EXCEPT !.config.metalMaterial = "white",
                        !.reasoning = Append(@, "Traditional style -> white frame")]
        ELSE st

\* the if / else if chain of STEP 2, in its order: the words that name a family, the
\* words that name it next to a separate "glass", and the glassType
glassFamilies ==
    <<[heads |-> {"six", "6"}, names |-> {"six"}, value |-> "sixfold"],
      [heads |-> {"five", "5"}, names |-> {"five"}, value |-> "fivefold"],
      [heads |-> {"four", "4"}, names |-> {"four"}, value |-> "fourfold"],
      [heads |-> {"triple", "three", "3"}, names |-> {"triple", "three"}, value |-> "triple"],
      [heads |-> {"double", "two", "2"}, names |-> {"double", "two"}, value |-> "double"]>>

\* one condition of the chain
FamilyNamed(inputLower, family) ==
    \/ TestHeadTail(inputLower, family.heads, {"fold", "panel", "glass", "pane"})
    \/ /\ TestWords(inputLower, Words(family.names))
       /\ TestWords(inputLower, Words({"glass"}))

\* STEP 2
GlassTypeDetection(inputLower, st) ==
    LET named == SelectSeq(glassFamilies, LAMBDA family : FamilyNamed(inputLower, family))
    IN  IF named = <<>> THEN st
        ELSE [st EXCEPT !.config.glassType = named[1].value,
                        !.config.enclosureEnabled = TRUE,
                        !.config.selectedSide = "front",
                        !.reasoning = Append(@, "Detected " \o named[1].value \o " glass configuration"),
                        !.keyFeatures = Append(@, named[1].value \o " glass"),
                        !.glassDetected = TRUE]

heightPatterns ==
    <<<<Number, SpaceRun(0), Unit, SpaceRun(1), Lit(<<"height", "high", "tall">>)>>,
      <<Lit(<<"height">>), SpaceRun(1), Lit(<<"of">>), SpaceRun(1), Number, SpaceRun(0), Unit>>,
      <<Number, SpaceRun(0), Unit, SpaceRun(1), Lit(<<"tall">>)>>,
      <<Lit(<<"tall", "high">>), SpaceRun(1), Number, SpaceRun(0), Unit>>,
      <<Lit(<<"height">>), SpaceRun(0), Optional(<<":">>), SpaceRun(0), Number, SpaceRun(0),
        OptionalUnit>>>>

\* the values of the matches of a pattern
Values(inputLower, pattern) ==
    LET matches == matchAll(inputLower, pattern)
    IN  [n \in 1..Len(matches) |-> parseFloat(matches[n].captures[1])]

\* STEP 3: every pattern with a value from 2.5 to 6 writes its first such value
RECURSIVE HeightFrom(_, _, _, _)
HeightFrom(inputLower, st, extractedHeight, n) ==
    IF n > Len(heightPatterns)
    THEN IF extractedHeight # 0
         THEN [st EXCEPT !.config.height = extractedHeight,
                         !.keyFeatures = Append(@, NumberText(extractedHeight) \o "m height")]
         ELSE st
    ELSE LET inRange == SelectSeq(Values(inputLower, heightPatterns[n]),
                                  LAMBDA value : value >= 2500 /\ value <= 6000)
         IN  IF inRange = <<>> THEN HeightFrom(inputLower, st, extractedHeight, n + 1)
             ELSE HeightFrom(inputLower,
                             [st EXCEPT !.reasoning =
                                 Append(@, "Detected " \o NumberText(inRange[1]) \o "m height")],
                             inRange[1], n + 1)

HeightDetection(inputLower, st) == HeightFrom(inputLower, st, 0, 1)

dimensionPatterns ==
    <<<<Number, SpaceRun(0), Unit, SpaceRun(1), Lit(<<"width", "wide">>)>>,
      <<Lit(<<"width">>), SpaceRun(1), Lit(<<"of">>), SpaceRun(1), Number, SpaceRun(0), Unit>>,
      <<Number, SpaceRun(0), Unit, SpaceRun(1), Lit(<<"depth", "deep">>)>>,
      <<Lit(<<"depth">>), SpaceRun(1), Lit(<<"of">>), SpaceRun(1), Number, SpaceRun(0), Unit>>,
      <<Number, SpaceRun(0), Unit>>,
      <<Integer, SpaceRun(0), Lit(<<"by">>), SpaceRun(0), Integer>>,
      <<Integer, SpaceRun(0), Lit(<<"x">>), SpaceRun(0), Integer>>>>

ContainsAny(s, literals) == \E w \in literals : Contains(s, w)

\* the body of the loop over the matches of one dimension pattern
DimensionMatch(inputLower, st, match) ==
    LET value == parseFloat(match.captures[1])
        contextBefore == substring(inputLower, MaxOf(0, match.index - 20), match.index)
        contextAfter == substring(inputLower, match.index,
                                  MinOf(Len(inputLower), match.index + Len(match.text) + 20))
        fullContext == contextBefore \o contextAfter
    IN  IF ContainsAny(fullContext, {"height", "high", "tall"}) THEN st
        ELSE IF ~(value >= 3000 /\ value <= 15000) THEN st
        ELSE IF ContainsAny(fullContext, {"width", "wide"})
        THEN [st EXCEPT !.extractedWidth = value,
                        !.reasoning = Append(@, "Detected " \o NumberText(value) \o "m width")]
        ELSE IF ContainsAny(fullContext, {"depth", "deep"})
        THEN [st EXCEPT !.extractedDepth = value,
                        !.reasoning = Append(@, "Detected " \o NumberText(value) \o "m depth")]
        ELSE IF st.extractedWidth = 0
        THEN [st EXCEPT !.extractedWidth = value,
                        !.reasoning = Append(@, "Detected " \o NumberText(value) \o "m dimension")]
        ELSE IF st.extractedDepth = 0 /\ value # st.extractedWidth
        THEN [st EXCEPT !.extractedDepth = value]
        ELSE st

RECURSIVE DimensionMatches(_, _, _, _)
DimensionMatches(inputLower, st, matches, n) ==
    IF n > Len(matches) THEN st
    ELSE DimensionMatches(inputLower, DimensionMatch(inputLower, st, matches[n]), matches, n + 1)

RECURSIVE DimensionsFrom(_, _, _)
DimensionsFrom(inputLower, st, n) ==
    IF n > Len(dimensionPatterns) THEN st
    ELSE DimensionsFrom(inputLower,
                        DimensionMatches(inputLower, st, matchAll(inputLower, dimensionPatterns[n]), 1),
                        n + 1)

\* STEP 4
WidthAndDepthDetection(inputLower, st) ==
    LET found == DimensionsFrom(inputLower, st, 1)
        withWidth == IF found.extractedWidth # 0
                     THEN [found EXCEPT !.config.width = found.extractedWidth,
                                        !.keyFeatures = Append(@, NumberText(found.extractedWidth) \o "m width")]
                     ELSE found
    IN  IF withWidth.extractedDepth # 0
        THEN [withWidth EXCEPT !.config.depth = withWidth.extractedDepth,
                               !.keyFeatures = Append(@, NumberText(withWidth.extractedDepth) \o "m depth")]
        ELSE withWidth

\* Object.entries(sizeKeywords)
sizeKeywords ==
    <<[keyword |-> "tiny", width |-> 3500], [keyword |-> "small", width |-> 3500],
      [keyword |-> "compact", width |-> 3500], [keyword |-> "cozy", width |-> 4000],
      [keyword |-> "medium", width |-> 5500], [keyword |-> "normal", width |-> 5500],
      [keyword |-> "standard", width |-> 5500], [keyword |-> "regular", width |-> 5500],
      [keyword |-> "large", width |-> 7500], [keyword |-> "big", width |-> 7500],
      [keyword |-> "spacious", width |-> 7500], [keyword |-> "roomy", width |-> 7000],
      [keyword |-> "huge", width |-> 9000], [keyword |-> "massive", width |-> 9000],
      [keyword |-> "grand", width |-> 9000], [keyword |-> "enormous", width |-> 10000],
      [keyword |-> "luxury", width |-> 9000]>>

\* STEP 5
SizeKeywords(inputLower, st) ==
    LET found == SelectSeq(sizeKeywords, LAMBDA size : TestWords(inputLower, Words({size.keyword})))
    IN  IF st.extractedWidth # 0 \/ found = <<>> THEN st
        ELSE [st EXCEPT !.config.width = found[1].width,
                        !.reasoning = Append(@, "\"" \o found[1].keyword \o "\" = "
                                                    \o NumberText(found[1].width) \o "m"),
                        !.keyFeatures = Append(@, found[1].keyword \o " size")]

\* STEP 6
GlassStyleDetection(inputLower, st) ==
    IF TestWords(inputLower, {<<"frameless">>, <<"no", "frame">>, <<"only", "glass">>, <<"glass", "only">>})
    THEN [st EXCEPT !.config.glassStyle = "onlyglass",
                    !.reasoning = Append(@, "Frameless glass style")]
    ELSE IF TestWords(inputLower, Words({"grid", "gridded", "divided", "panes"}))
    THEN [st EXCEPT !.config.glassStyle = "grid", !.reasoning = Append(@, "Grid glass style")]
    ELSE IF TestWords(inputLower, {<<"framed">>, <<"with", "frame">>, <<"frames">>})
    THEN [st EXCEPT !.config.glassStyle = "withframe", !.reasoning = Append(@, "Framed glass style")]
    ELSE st

\* STEP 7, with the sliding keywords
EnclosureDetection(inputLower, st) ==
    LET enclosure ==
            IF TestWords(inputLower, {<<"open">>, <<"airy">>, <<"no", "walls">>, <<"no", "enclosure">>})
            THEN [st EXCEPT !.config.enclosureEnabled = FALSE,
                            !.config.selectedSide = NoSide,
                            !.reasoning = Append(@, "Open-air design")]
            ELSE IF TestWords(inputLower, Words({"glass", "window", "transparent", "enclosed"}))
            THEN [st EXCEPT !.config.enclosureEnabled = TRUE,
                            !.config.enclosureType = "glass",
                            !.config.selectedSide = IF @ = NoSide THEN "front" ELSE @]
            ELSE st
    IN  IF ~st.glassDetected
           /\ TestWords(inputLower, Words({"sliding", "flexible", "movable", "retractable"}))
        THEN [enclosure EXCEPT !.config.glassType = "fourfold",
                               !.config.enclosureEnabled = TRUE,
                               !.config.selectedSide = "front",
                               !.reasoning = Append(@, "Sliding glass system")]
        ELSE enclosure

\* STEP 8
LuxuryBudgetDetection(inputLower, st) ==
    IF st.glassDetected THEN st
    ELSE IF TestWords(inputLower, {<<"luxury">>, <<"premium">>, <<"high", "end">>, <<"expensive">>,
                                   <<"best">>, <<"finest">>, <<"top", "quality">>})
    THEN [st EXCEPT !.config.glassType = "sixfold",
                    !.config.enclosureEnabled = TRUE,
                    !.config.selectedSide = "front",
                    !.config.lightsOn = TRUE,
                    !.config.width = IF @ < 7000 THEN 7500 ELSE @,
                    !.reasoning = Append(@, "Premium luxury configuration")]
    ELSE IF TestWords(inputLower, Words({"budget", "cheap", "affordable", "economical", "basic"}))
    THEN [st EXCEPT !.config.glassType = "double", !.reasoning = Append(@, "Cost-optimized design")]
    ELSE st

\* STEP 9
Lighting(inputLower, st) ==
    IF ~TestWords(inputLower, Words({"light", "lighting", "lights", "led", "illuminat", "lamp"}))
    THEN st
    ELSE LET lit == [st EXCEPT !.config.lightsOn = TRUE]
         IN  IF TestWords(inputLower, Words({"ambient", "soft", "warm", "cozy", "mood"}))
             THEN [lit EXCEPT !.config.lightShape = "circle",
                              !.reasoning = Append(@, "Ambient lighting")]
             ELSE IF TestWords(inputLower, Words({"bright", "functional", "task", "work"}))
             THEN [lit EXCEPT !.config.lightShape = "rectangle",
                              !.reasoning = Append(@, "Bright functional lighting")]
             ELSE IF TestWords(inputLower, Words({"decorative", "stylish", "design", "square", "accent"}))
             THEN [lit EXCEPT !.config.lightShape = "square",
                              !.reasoning = Append(@, "Decorative lighting")]
             ELSE lit

\* STEP 10
RoofType(inputLower, st) ==
    IF TestWords(inputLower, Words({"pitch", "pitched", "angled", "sloped", "slope", "rain", "drainage"}))
    THEN [st EXCEPT !.config.roofPitchActive = TRUE,
                    !.config.roofPitchAngle = 10,
                    !.reasoning = Append(@, "Pitched roof")]
    ELSE IF TestWords(inputLower, Words({"flat", "level", "horizontal"}))
    THEN [st EXCEPT !.config.roofPitchActive = FALSE]
    ELSE st

\* STEP 11
HistoryAdjustments(inputLower, hist, st) ==
    IF Len(hist) = 0 THEN st
    ELSE LET bigger ==
                 IF TestWords(inputLower, Words({"bigger", "larger", "more", "increase", "expand"}))
                 THEN [st EXCEPT !.config.width = MinOf(@ + 1500, 12000),
                                 !.reasoning = Append(@, "Increased size")]
                 ELSE st
             smaller ==
                 IF TestWords(inputLower, Words({"smaller", "less", "decrease", "reduce"}))
                 THEN [bigger EXCEPT !.config.width = MaxOf(@ - 1500, 3000),
                                     !.reasoning = Append(@, "Reduced size")]
                 ELSE bigger
             taller ==
                 IF TestWords(inputLower, Words({"taller", "higher"}))
                 THEN [smaller EXCEPT !.config.height = MinOf(@ + 500, 6000),
                                      !.reasoning = Append(@, "Increased height")]
                 ELSE smaller
         IN  IF TestWords(inputLower, Words({"shorter", "lower"}))
             THEN [taller EXCEPT !.config.height = MaxOf(@ - 500, 2500),
                                 !.reasoning = Append(@, "Reduced height")]
             ELSE taller

\* the steps of the body, in their order
Steps == 1..11

Step(n, inputLower, hist, st) ==
    CASE n = 1 -> FrameColorDetection(inputLower, st)
      [] n = 2 -> GlassTypeDetection(inputLower, st)
      [] n = 3 -> HeightDetection(inputLower, st)
      [] n = 4 -> WidthAndDepthDetection(inputLower, st)
      [] n = 5 -> SizeKeywords(inputLower, st)
      [] n = 6 -> GlassStyleDetection(inputLower, st)
      [] n = 7 -> EnclosureDetection(inputLower, st)
      [] n = 8 -> LuxuryBudgetDetection(inputLower, st)
      [] n = 9 -> Lighting(inputLower, st)
      [] n = 10 -> RoofType(inputLower, st)
      [] n = 11 -> HistoryAdjustments(inputLower, hist, st)

\* the locals after the steps n.. ran on st
RECURSIVE StepsFrom(_, _, _, _)
StepsFrom(n, inputLower, hist, st) ==
    IF n \notin Steps THEN st
    ELSE StepsFrom(n + 1, inputLower, hist, Step(n, inputLower, hist, st))

\* the locals of interpretUserInput(text, hist) when it reaches the end of its body
interpretLocals(text, hist) == StepsFrom(1, toLowerCase(text), hist, InterpreterStart)

\* interpretUserInput(text, hist): the body ends after STEP 11 without a return statement,
\* so the call evaluates to undefined whatever its locals hold; returned is <<>> for that
interpretUserInput(text, hist) ==
    LET locals == interpretLocals(text, hist)
    IN  [threw |-> FALSE, returned |-> <<>>,
         config |-> locals.config, reasoning |-> locals.reasoning,
         keyFeatures |-> locals.keyFeatures]

\* the texts handed to the interpreter: a phrase, then up to MaxMoreWords further words
Phrases ==
    {"hello", "I want a six glass veranda", "modern black 7m wide", "modern white",
     "Luxury 6m wide", "height of 3.5m and 4 by 3", "dark grey sixfold", "14m wide"}

MoreWords ==
    {"double", "four", "open", "luxury", "bigger", "taller", "lights", "pitched", "3m", "tall"}

MaxMoreWords == 1

RECURSIVE Extended(_, _)
Extended(texts, n) ==
    IF n = 0 THEN texts
    ELSE texts \cup Extended({text \o " " \o word : text \in texts, word \in MoreWords}, n - 1)

InterpreterInputs == Extended(Phrases, MaxMoreWords)

\* an empty history and one with an earlier message
Histories == {<<>>, <<[role |-> "user", content |-> "hello"]>>}

\* no call of the interpreter
InterpreterIdle ==
    /\ input = ""
    /\ history = <<>>
    /\ interpreted = <<>>

\* the call interpretUserInput(input, history)
Interpret ==
    /\ interpreted = <<>>
    /\ interpreted' = <<interpretUserInput(input, history)>>
    /\ UNCHANGED <<input, history, outsideInterpreter>>

InterpreterNext == Interpret

(***************************************************************************)
(* JavaScript numbers: IEEE 754 binary64, round to nearest, ties to even.  *)
(* A number is sign, 53-bit significand and exponent; the significand is   *)
(* kept as a little-endian sequence of 14-bit limbs.                       *)
(***************************************************************************)
\* 52 stored bits and the implicit leading one
SignificandBits == 52 + 1

Limb == 2^14

RECURSIVE SmallBitLen(_)
SmallBitLen(n) == IF n = 0 THEN 0 ELSE 1 + SmallBitLen(n \div 2)

LimbBits == SmallBitLen(Limb) - 1

RECURSIVE NatOf(_)
NatOf(n) == IF n = 0 THEN <<>> ELSE <<n % Limb>> \o NatOf(n \div Limb)

RECURSIVE Trim(_)
Trim(a) ==
    IF a = <<>> THEN a
    ELSE IF a[Len(a)] = 0 THEN Trim(SubSeq(a, 1, Len(a) - 1)) ELSE a

Digit(a, i) == IF i <= Len(a) THEN a[i] ELSE 0

RECURSIVE AddFrom(_, _, _, _)
AddFrom(a, b, i, carry) ==
    IF i > Len(a) /\ i > Len(b)
    THEN IF carry = 0 THEN <<>> ELSE <<carry>>
    ELSE LET s == Digit(a, i) + Digit(b, i) + carry
         IN  <<s % Limb>> \o AddFrom(a, b, i + 1, s \div Limb)

NatAdd(a, b) == AddFrom(a, b, 1, 0)

RECURSIVE SubFrom(_, _, _, _)
SubFrom(a, b, i, borrow) ==
    IF i > Len(a) THEN <<>>
    ELSE LET d == Digit(a, i) - Digit(b, i) - borrow
         IN  <<d % Limb>> \o SubFrom(a, b, i + 1, IF d < 0 THEN 1 ELSE 0)

\* a - b for a >= b
NatSub(a, b) == Trim(SubFrom(a, b, 1, 0))

RECURSIVE LessFrom(_, _, _)
LessFrom(a, b, i) ==
    IF i = 0 THEN FALSE
    ELSE IF a[i] # b[i] THEN a[i] < b[i] ELSE LessFrom(a, b, i - 1)

NatLess(a, b) ==
    IF Len(a) # Len(b) THEN Len(a) < Len(b) ELSE LessFrom(a, b, Len(a))

RECURSIVE MulSmallFrom(_, _, _, _)
MulSmallFrom(a, k, i, carry) ==
    IF i > Len(a) THEN NatOf(carry)
    ELSE LET p == a[i] * k + carry
         IN  <<p % Limb>> \o MulSmallFrom(a, k, i + 1, p \div Limb)

NatMulSmall(a, k) == Trim(MulSmallFrom(a, k, 1, 0))

RECURSIVE MulFrom(_, _, _)
MulFrom(a, b, i) ==
    IF i > Len(b) THEN <<>>
    ELSE NatAdd(NatMulSmall(a, b[i]), <<0>> \o MulFrom(a, b, i + 1))

NatMul(a, b) == Trim(MulFrom(a, b, 1))

RECURSIVE DivSmallFrom(_, _, _, _)
DivSmallFrom(a, k, i, rem) ==
    IF i = 0 THEN <<>>
    ELSE LET n == rem * Limb + a[i]
         IN  DivSmallFrom(a, k, i - 1, n % k) \o <<n \div k>>

\* floor(a / k) for 0 < k <= 2^13
NatDivSmall(a, k) == Trim(DivSmallFrom(a, k, Len(a), 0))

NatShl(a, n) ==
    IF a = <<>> \/ n = 0 THEN a
    ELSE [i \in 1..(n \div LimbBits) |-> 0] \o
             (IF n % LimbBits = 0 THEN a ELSE NatMulSmall(a, 2^(n % LimbBits)))

NatShr(a, n) ==
    IF n \div LimbBits >= Len(a) THEN <<>>
    ELSE IF n % LimbBits = 0 THEN SubSeq(a, (n \div LimbBits) + 1, Len(a))
    ELSE NatDivSmall(SubSeq(a, (n \div LimbBits) + 1, Len(a)), 2^(n % LimbBits))

BitLen(a) == IF a = <<>> THEN 0 ELSE LimbBits * (Len(a) - 1) + SmallBitLen(a[Len(a)])

IsOdd(a) == a # <<>> /\ a[1] % 2 = 1

Zero == [neg |-> FALSE, mant |-> <<>>, exp |-> 0]

\* the number nearest to (-1)^neg * mant * 2^exp, ties to even
RoundToDouble(neg, mant, exp) ==
    LET len == BitLen(mant)
    IN  IF len = 0 THEN Zero
        ELSE IF len = SignificandBits THEN [neg |-> neg, mant |-> mant, exp |-> exp]
        ELSE IF len < SignificandBits
        THEN [neg |-> neg, mant |-> NatShl(mant, SignificandBits - len),
              exp |-> exp - (SignificandBits - len)]
        ELSE LET drop == len - SignificandBits
                 q == NatShr(mant, drop)
                 up == IF drop <= LimbBits
                       THEN LET rest == mant[1] % 2^drop
                            IN  rest > 2^(drop - 1) \/ (rest = 2^(drop - 1) /\ IsOdd(q))
                       ELSE LET rest == NatSub(mant, NatShl(q, drop))
                                half == NatShl(<<1>>, drop - 1)
                            IN  NatLess(half, rest) \/ (rest = half /\ IsOdd(q))
                 r == IF up THEN NatAdd(q, <<1>>) ELSE q
             IN  IF BitLen(r) > SignificandBits
                 THEN [neg |-> neg, mant |-> NatShr(r, 1), exp |-> exp + drop + 1]
                 ELSE [neg |-> neg, mant |-> r, exp |-> exp + drop]

FromInt(n) == RoundToDouble(n < 0, NatOf(IF n < 0 THEN -n ELSE n), 0)

Neg(x) == IF x = Zero THEN x ELSE [x EXCEPT !.neg = ~@]

\* x + y
Plus(x, y) ==
    IF x = Zero THEN y
    ELSE IF y = Zero THEN x
    ELSE LET e == IF x.exp < y.exp THEN x.exp ELSE y.exp
             mx == NatShl(x.mant, x.exp - e)
             my == NatShl(y.mant, y.exp - e)
         IN  IF x.neg = y.neg THEN RoundToDouble(x.neg, NatAdd(mx, my), e)
             ELSE IF NatLess(mx, my) THEN RoundToDouble(y.neg, NatSub(my, mx), e)
             ELSE RoundToDouble(x.neg, NatSub(mx, my), e)

\* x - y
Minus(x, y) == Plus(x, Neg(y))

\* x * y
Times(x, y) ==
    IF x = Zero \/ y = Zero THEN Zero
    ELSE RoundToDouble(x.neg # y.neg, NatMul(x.mant, y.mant), x.exp + y.exp)

\* one step of long division: the next quotient bit and the remainder
DivideStep(s, d) ==
    LET r2 == NatMulSmall(s.rem, 2)
    IN  IF NatLess(r2, d)
        THEN [q |-> NatMulSmall(s.q, 2), rem |-> r2]
        ELSE [q |-> NatAdd(NatMulSmall(s.q, 2), <<1>>), rem |-> NatSub(r2, d)]

RECURSIVE DivideFrom(_, _, _)
DivideFrom(s, d, bits) ==
    IF bits = 0 THEN s
    ELSE IF s.rem = <<>> THEN [q |-> NatShl(s.q, bits), rem |-> <<>>]
    ELSE DivideFrom(DivideStep(s, d), d, bits - 1)

\* x / y for y # 0; a remainder is kept as one more low bit, enough to round correctly
Divide(x, y) ==
    IF x = Zero THEN Zero
    ELSE LET first == ~NatLess(x.mant, y.mant)
             r == DivideFrom([q |-> IF first THEN <<1>> ELSE <<>>,
                              rem |-> IF first THEN NatSub(x.mant, y.mant) ELSE x.mant],
                             y.mant, SignificandBits + 3)
             sticky == IF r.rem = <<>> THEN <<>> ELSE <<1>>
         IN  RoundToDouble(x.neg # y.neg, NatAdd(NatMulSmall(r.q, 2), sticky),
                           x.exp - y.exp - (SignificandBits + 3) - 1)

\* the number a decimal literal n/d denotes
Decimal(n, d) == Divide(FromInt(n), FromInt(d))

\* x < y
Less(x, y) ==
    IF x = Zero THEN y # Zero /\ ~y.neg
    ELSE IF y = Zero THEN x.neg
    ELSE IF x.neg # y.neg THEN x.neg
    ELSE IF x.exp # y.exp THEN (x.exp < y.exp) # x.neg
    ELSE IF x.neg THEN NatLess(y.mant, x.mant) ELSE NatLess(x.mant, y.mant)

MathMax(x, y) == IF Less(x, y) THEN y ELSE x

MathMin(x, y) == IF Less(y, x) THEN y ELSE x

\* x % 1: the fraction of x, with the sign of x
Mod1(x) ==
    IF x = Zero \/ x.exp >= 0 THEN Zero
    ELSE LET whole == NatShr(x.mant, -x.exp)
         IN  RoundToDouble(x.neg, NatSub(x.mant, NatShl(whole, -x.exp)), x.exp)

One == FromInt(1)

(***************************************************************************)
(* CameraController: the orbit camera's refs, its DOM listeners and the    *)
(* quick-jump animation.  Pointer positions are whole pixels, times whole  *)
(* milliseconds.                                                           *)
(***************************************************************************)
MIN_ZOOM == Decimal(20, 10)

MAX_ZOOM == Decimal(80, 10)

VERTICAL_DEAD_ZONE == 15

zoomSpeed == Decimal(2, 1000)

pinchSpeed == Decimal(1, 100)

panSensitivity == Decimal(71, 10000)

\* window.innerWidth
innerWidth == 1000

dragSensitivity == Divide(One, Times(FromInt(innerWidth), Decimal(57, 100)))

MinHeight == Decimal(-5, 10)

MaxHeight == Decimal(35, 10)

targetHeight == Decimal(28, 100)

targetProgress == [front |-> Decimal(5, 10), left |-> Decimal(25, 100), right |-> Decimal(75, 100)]

duration == 1000

\* the clock is read at multiples of half the duration
TickMs == duration \div 2

\* inputs of the listeners: wheel deltaY, distance of two touches, pointer movement
WheelDeltas == {-5000, 120}

PinchDistances == {100, 1100}

DragDeltaX == {300}

DragDeltaY == {-600, 10, 15}

MaxCameraSteps == 3

\* delta * zoomSpeed, delta * pinchSpeed, deltaX * dragSensitivity and deltaY * panSensitivity
\* for the inputs above
WheelZoom == [deltaY \in WheelDeltas |-> Times(FromInt(deltaY), zoomSpeed)]

PinchZoom ==
    [delta \in {a - b : a \in PinchDistances, b \in PinchDistances} |->
        Times(FromInt(delta), pinchSpeed)]

DragProgress == [deltaX \in DragDeltaX |-> Times(FromInt(deltaX), dragSensitivity)]

DragHeight == [deltaY \in DragDeltaY |-> Times(FromInt(deltaY), panSensitivity)]

CameraInit ==
    /\ pathProgress = Decimal(5, 10)
    /\ cameraHeight = Decimal(35, 100)
    /\ zoomDistance = Decimal(44, 10)
    /\ lastPinchDistance = 0
    /\ isDragging = FALSE
    /\ verticalDragAccumulator = 0
    /\ enclosureView = NoSide
    /\ now = 0
    /\ animations = {}
    /\ lastFrame = <<>>
    /\ cameraSteps = 0

\* variant of ClampZoom: only the lower limit is enforced
ClampZoomLowerOnly(z) == MathMax(MIN_ZOOM, z)

\* Math.max(MIN_ZOOM, Math.min(MAX_ZOOM, z))
ClampZoom(z) == MathMax(MIN_ZOOM, MathMin(MAX_ZOOM, z))

CameraInput == cameraSteps < MaxCameraSteps /\ cameraSteps' = cameraSteps + 1

handleWheel ==
    \E deltaY \in WheelDeltas :
        /\ CameraInput
        /\ zoomDistance' = ClampZoom(Plus(zoomDistance, WheelZoom[deltaY]))
        /\ UNCHANGED <<pathProgress, cameraHeight, lastPinchDistance, isDragging,
                       verticalDragAccumulator, enclosureView, now, animations, lastFrame>>
        /\ UNCHANGED outsideCamera

\* a touchmove with two touches; the drag listener on window ignores it
handleTouchMove ==
    \E currentDistance \in PinchDistances :
        /\ CameraInput
        /\ zoomDistance' =
               IF lastPinchDistance > 0
               THEN ClampZoom(Minus(zoomDistance, PinchZoom[currentDistance - lastPinchDistance]))
               ELSE zoomDistance
        /\ lastPinchDistance' = currentDistance
        /\ UNCHANGED <<pathProgress, cameraHeight, isDragging, verticalDragAccumulator,
                       enclosureView, now, animations, lastFrame>>
        /\ UNCHANGED outsideCamera

\* a touchend reaches handleTouchEnd on the canvas and handlePointerUp on window
handleTouchEnd ==
    /\ CameraInput
    /\ lastPinchDistance' = 0
    /\ isDragging' = FALSE
    /\ verticalDragAccumulator' = 0
    /\ UNCHANGED <<pathProgress, cameraHeight, zoomDistance, enclosureView, now, animations,
                   lastFrame>>
    /\ UNCHANGED outsideCamera

handlePointerDown ==
    /\ CameraInput
    /\ isDragging' = TRUE
    /\ verticalDragAccumulator' = 0
    /\ UNCHANGED <<pathProgress, cameraHeight, zoomDistance, lastPinchDistance, enclosureView,
                   now, animations, lastFrame>>
    /\ UNCHANGED outsideCamera

\* ((p % 1) + 1) % 1
WrapProgress(p) == Mod1(Plus(Mod1(p), One))

\* the clamp of line 717 without its upper limit
ClampHeightLowerOnly(h) == MathMax(MinHeight, h)

ClampHeight(h) == MathMax(MinHeight, MathMin(MaxHeight, h))

handlePointerMove ==
    \E deltaX \in DragDeltaX, deltaY \in DragDeltaY :
        /\ isDragging
        /\ CameraInput
        /\ pathProgress' = WrapProgress(Plus(pathProgress, DragProgress[deltaX]))
        /\ IF verticalDragAccumulator + Abs(deltaY) >= VERTICAL_DEAD_ZONE
           THEN /\ cameraHeight' =
                       ClampHeight(Minus(cameraHeight, DragHeight[deltaY]))
                /\ verticalDragAccumulator' = 0
           ELSE /\ cameraHeight' = cameraHeight
                /\ verticalDragAccumulator' = verticalDragAccumulator + Abs(deltaY)
        /\ UNCHANGED <<zoomDistance, lastPinchDistance, isDragging, enclosureView, now,
                       animations, lastFrame>>
        /\ UNCHANGED outsideCamera

handlePointerUp ==
    /\ CameraInput
    /\ isDragging' = FALSE
    /\ verticalDragAccumulator' = 0
    /\ UNCHANGED <<pathProgress, cameraHeight, zoomDistance, lastPinchDistance, enclosureView,
                   now, animations, lastFrame>>
    /\ UNCHANGED outsideCamera

\* Math.pow(x, 3)
Cube(x) == Times(Times(x, x), x)

\* the clock readings an animation can see: whole clock steps
ElapsedTimes == {k * TickMs : k \in 0..(4 * MaxCameraSteps)}

\* Math.min(elapsed / duration, 1)
animProgress ==
    [elapsed \in ElapsedTimes |-> MathMin(Divide(FromInt(elapsed), FromInt(duration)), One)]

\* 1 - Math.pow(1 - animProgress, 3)
easeProgress ==
    [elapsed \in ElapsedTimes |-> Minus(One, Cube(Minus(One, animProgress[elapsed])))]

\* one call of animate at the current time: what it writes and whether it asks for
\* another frame
animate(chain) ==
    LET elapsed == now - chain.startTime
    IN  [pathProgress |-> Plus(chain.startProgress,
                               Times(Minus(chain.targetProgress, chain.startProgress),
                                     easeProgress[elapsed])),
         cameraHeight |-> Plus(chain.startHeight,
                               Times(Minus(targetHeight, chain.startHeight),
                                     easeProgress[elapsed])),
         again |-> Less(animProgress[elapsed], One)]

\* what the last call of animate did
FrameRecord(chain, frame) ==
    [view |-> chain.view, elapsed |-> now - chain.startTime,
     pathProgress |-> frame.pathProgress, cameraHeight |-> frame.cameraHeight,
     again |-> frame.again]

\* the enclosureView prop changes: the effect returns at once for null, else it starts an
\* animation and calls animate for the first time
JumpRequest ==
    \E view \in Sides \cup {NoSide} :
        /\ view # enclosureView
        /\ CameraInput
        /\ enclosureView' = view
        /\ IF view = NoSide
           THEN UNCHANGED <<pathProgress, cameraHeight, animations, lastFrame>>
           ELSE \E chain \in {[view |-> view, targetProgress |-> targetProgress[view],
                                startProgress |-> pathProgress, startHeight |-> cameraHeight,
                                startTime |-> now, lastRun |-> now]} :
                    \E frame \in {animate(chain)} :
                        /\ pathProgress' = frame.pathProgress
                        /\ cameraHeight' = frame.cameraHeight
                        /\ animations' = IF frame.again THEN animations \cup {chain} ELSE animations
                        /\ lastFrame' = <<FrameRecord(chain, frame)>>
        /\ UNCHANGED <<zoomDistance, lastPinchDistance, isDragging, verticalDragAccumulator, now>>
        /\ UNCHANGED outsideCamera

\* the browser runs a requested animation frame callback, in a later frame than the call
\* that requested it
AnimationFrame ==
    \E chain \in animations :
        /\ chain.lastRun < now
        /\ \E frame \in {animate(chain)} :
               /\ pathProgress' = frame.pathProgress
               /\ cameraHeight' = frame.cameraHeight
               /\ animations' = (animations \ {chain}) \cup
                                    (IF frame.again THEN {[chain EXCEPT !.lastRun = now]} ELSE {})
               /\ lastFrame' = <<FrameRecord(chain, frame)>>
        /\ UNCHANGED <<zoomDistance, lastPinchDistance, isDragging, verticalDragAccumulator,
                       enclosureView, now, cameraSteps>>
        /\ UNCHANGED outsideCamera

\* time passes; the clock is only ever read by animate, so it is followed while an animation
\* is running, and every running animation has had its frame before it moves on
Tick ==
    \E step \in {TickMs} :
        /\ animations # {}
        /\ \A chain \in animations : chain.lastRun = now
        /\ now' = now + step
        /\ UNCHANGED <<pathProgress, cameraHeight, zoomDistance, lastPinchDistance, isDragging,
                       verticalDragAccumulator, enclosureView, animations, lastFrame,
                       cameraSteps>>
        /\ UNCHANGED outsideCamera

CameraNext ==
    \/ handleWheel
    \/ handleTouchMove
    \/ handleTouchEnd
    \/ handlePointerDown
    \/ handlePointerMove
    \/ handlePointerUp
    \/ JumpRequest
    \/ AnimationFrame
    \/ Tick

\* A render with changed props: the effect runs again once the model is mounted.
Render(c) ==
    /\ mounted
    /\ changes < MaxChanges
    /\ c # cfg
    /\ cfg' = c
    /\ changes' = changes + 1
    /\ scene' = Resolve(scene, c)
    /\ modelScale' = ModelScale(c)
    /\ UNCHANGED <<mounted, outsideScene>>

\* the scene freshly loaded, the effect not yet run
SceneInit ==
    /\ cfg = DefaultConfig
    /\ scene = FreshScene
    /\ modelScale = [x |-> 1000, y |-> 1000, z |-> 1000]
    /\ mounted = FALSE
    /\ changes = 0

\* the pricing useMemo of the initial render has not been modelled as a step: no price yet
Init ==
    /\ SceneInit
    /\ priceInput = [model |-> "castor", depth |-> DefaultConfig.depth, width |-> DefaultConfig.width,
                     roofType |-> "polycarbonate", enclosures |-> [left |-> TRUE, right |-> TRUE],
                     lighting |-> 0]
    /\ breakdown = <<>>
    /\ HostInit
    /\ CameraInit
    /\ AssistantInit
    /\ InterpreterIdle

\* first run of the effect, on the freshly loaded scene
Mount ==
    /\ ~mounted
    /\ mounted' = TRUE
    /\ scene' = Resolve(scene, cfg)
    /\ modelScale' = ModelScale(cfg)
    /\ UNCHANGED <<cfg, changes, outsideScene>>

SetVerandaType == \E v \in VerandaTypes : Render([cfg EXCEPT !.verandaType = v])

SetRoofPitchActive == \E v \in BOOLEAN : Render([cfg EXCEPT !.roofPitchActive = v])

SetRoofPitchAngle == \E v \in PitchAngles : Render([cfg EXCEPT !.roofPitchAngle = v])

SetRoofAwningPosition == \E v \in AwningPositions : Render([cfg EXCEPT !.roofAwningPosition = v])

SetMetalMaterial == \E v \in MetalMaterials : Render([cfg EXCEPT !.metalMaterial = v])

SetEnclosureEnabled == \E v \in BOOLEAN : Render([cfg EXCEPT !.enclosureEnabled = v])

SetGlassType == \E v \in GlassTypeKeys : Render([cfg EXCEPT !.glassType = v])

SetGlassStyle == \E v \in GlassStyles : Render([cfg EXCEPT !.glassStyle = v])

SetTintedGlassEnabled == \E v \in BOOLEAN : Render([cfg EXCEPT !.tintedGlassEnabled = v])

SetGlassColor == \E v \in GlassColors : Render([cfg EXCEPT !.glassColor = v])

SetLightsOn == \E v \in BOOLEAN : Render([cfg EXCEPT !.lightsOn = v])

SetLightShape == \E v \in LightShapes : Render([cfg EXCEPT !.lightShape = v])

SetTimeOfDay == \E v \in TimesOfDay : Render([cfg EXCEPT !.timeOfDay = v])

SetFootprint ==
    \E v \in Footprints :
        Render([cfg EXCEPT !.width = v.width, !.depth = v.depth, !.height = v.height])

SetSideMaterial ==
    \E side \in Sides :
        \E v \in SideMaterialChoices(side) :
            Render([cfg EXCEPT !.sideEnclosureTypes[side].material = v])

SetSideGlassType ==
    \E side \in Sides :
        \E v \in SideGlassTypeChoices(side) :
            Render([cfg EXCEPT !.sideEnclosureTypes[side].glassType = v])

SetSelectedSide == \E v \in {"front", "left"} : Render([cfg EXCEPT !.selectedSide = v])

Next ==
    \/ Mount
    \/ SetVerandaType
    \/ SetRoofPitchActive
    \/ SetRoofPitchAngle
    \/ SetRoofAwningPosition
    \/ SetMetalMaterial
    \/ SetEnclosureEnabled
    \/ SetGlassType
    \/ SetGlassStyle
    \/ SetTintedGlassEnabled
    \/ SetGlassColor
    \/ SetLightsOn
    \/ SetLightShape
    \/ SetTimeOfDay
    \/ SetFootprint
    \/ SetSideMaterial
    \/ SetSideGlassType
    \/ SetSelectedSide

Spec == Init /\ [][Next]_vars

(***************************************************************************)
(* The price calculator as a function of its input: the input is drawn     *)
(* from bounded sets and calculateCompleteVeranda is applied to it.        *)
(***************************************************************************)
PriceModels == {"castor", "titan"}

RoofTypes == {"polycarbonate", "glass"}

\* target depths and widths (mm): table keys, exact midpoints of adjacent keys, values
\* below the smallest and above the largest key, and the host's depth * 1000, width * 1000
PriceDepths == {1500, 2000, 2250, 2400, 3000, 4250, 4500, 4750, 5000, 5500, 7000}

PriceWidths == {2000, 3060, 3560, 4000, 5000, 5500, 6500, 9560, 12000}

LightCounts == {0, 1, 2, 6, 10, 11, 18, 20}

PriceInputs ==
    [model : PriceModels, roofType : RoofTypes, depth : PriceDepths, width : PriceWidths,
     enclosures : [left : BOOLEAN, right : BOOLEAN], lighting : LightCounts]

PriceInit ==
    /\ SceneInit
    /\ priceInput \in PriceInputs
    /\ breakdown = <<>>
    /\ HostInit
    /\ CameraInit
    /\ AssistantInit
    /\ InterpreterIdle

\* new PriceCalculator().calculateCompleteVeranda(config)
Price ==
    /\ breakdown = <<>>
    /\ breakdown' = <<calculateCompleteVeranda(priceInput)>>
    /\ UNCHANGED <<priceInput, outsidePrice>>

PriceNext == Price

PriceSpec == PriceInit /\ [][PriceNext]_vars

\* the host's handlers and effect, from the initial state of the component
HostSpec == Init /\ [][HostNext]_vars

\* the camera controller alone
CameraSpec == Init /\ [][CameraNext]_vars

\* the assistant and the host state it applies configs to
AssistantSpec == Init /\ [][AssistantNext]_vars

\* the interpreter as a function of its input: the text and the history are drawn from
\* bounded sets and interpretUserInput is applied to them
InterpreterInit ==
    /\ SceneInit
    /\ priceInput = [model |-> "castor", depth |-> DefaultConfig.depth, width |-> DefaultConfig.width,
                     roofType |-> "polycarbonate", enclosures |-> [left |-> TRUE, right |-> TRUE],
                     lighting |-> 0]
    /\ breakdown = <<>>
    /\ HostInit
    /\ CameraInit
    /\ AssistantInit
    /\ input \in InterpreterInputs
    /\ history \in Histories
    /\ interpreted = <<>>

InterpreterSpec == InterpreterInit /\ [][InterpreterNext]_vars

(***************************************************************************)
(* Properties of the scene resolution, checked under Spec.                 *)
(***************************************************************************)
Node(name, sfx) == [base |-> name, sfx |-> sfx]

\* what an observer of a node sees: visibility, material kind, scale, rotation, position
NodeView(s) ==
    [visible |-> s.visible, material |-> s.material.kind, scale |-> s.scale,
     rotationX |-> s.rotationX, position |-> s.position]

SceneView(sc) == [n \in Meshes |-> NodeView(sc[n])]

\* C1: resolve has no memory: resolving A, then B, then A again leaves every node with the
\* same visibility, material kind, scale, rotation and position as resolving A alone on a
\* freshly loaded tree (A is the configuration of the first render, B any configuration one
\* prop change away from it).
C1_ResolveHasNoMemory ==
    (mounted /\ changes = 2 /\ cfg = DefaultConfig)
        => SceneView(scene) = SceneView(Resolve(FreshScene, DefaultConfig))

\* C2: resolve is idempotent: resolving the current configuration once more leaves every
\* node's visibility, material kind, scale, rotation and position as they are (awning
\* positions do not accumulate).
C2_ResolveIdempotent ==
    mounted => SceneView(Resolve(scene, cfg)) = SceneView(scene)

\* the pitched awning has been raised and pushed back from its original position
C2_Witness ==
    /\ mounted
    /\ cfg.roofPitchActive
    /\ cfg.roofAwningPosition = "top"
    /\ cfg.roofPitchAngle = 15
    /\ scene[Node("roofpitchawn", "")].position.y = AssetPosition.y + BASE_Y_OFFSET + 150
    /\ scene[Node("roofpitchawn", "")].position.z = AssetPosition.z + Z_OFFSET

Visible(name) == scene[Node(name, "")].visible

PitchedRegime(hiddenFlat) ==
    /\ \A name \in pitchedRoofNames : Visible(name)
    /\ \A name \in hiddenFlat : ~Visible(name)

FlatRegime(flat) ==
    /\ \A name \in pitchedRoofNames : ~Visible(name)
    /\ \E name \in flat : Visible(name)

\* C3: after resolve exactly one roof regime is shown: either the pitched-roof meshes are
\* visible and every flat-roof mesh of the norm-roof group (normroof, pitchnormroof,
\* normroofglass, normroofholder) is hidden, or the pitched-roof meshes are all hidden and
\* flat-roof meshes are visible; never both, never neither.
C3_ExactlyOneRoofRegime ==
    mounted =>
      LET group == {"normroof", "pitchnormroof", "normroofglass", "normroofholder"}
      IN  PitchedRegime(group) # FlatRegime(group)

\* C3 (as the code has it): the same with normroofholder outside the hidden group: in the
\* pitched regime normroof, pitchnormroof and normroofglass are hidden while normroofholder
\* stays visible; in the flat regime the pitched meshes are hidden, normroofglass and
\* normroofholder are visible and so is exactly one of normroof and pitchnormroof.
C3_ExactlyOneRoofRegimeAmended ==
    mounted =>
      LET group == {"normroof", "pitchnormroof", "normroofglass"}
      IN  /\ PitchedRegime(group) # FlatRegime(group)
          /\ PitchedRegime(group) <=> cfg.roofPitchActive
          /\ Visible("normroofholder")
          /\ FlatRegime(group) =>
               (Visible("normroofglass") /\ (Visible("normroof") # Visible("pitchnormroof")))

\* the flat regime, reached from the pitched one
C3_Witness ==
    /\ mounted
    /\ ~cfg.roofPitchActive
    /\ Visible("normroofglass")
    /\ Visible("normroofholder")
    /\ ~Visible("roofpitchbase")

SuffixOfSide == [front |-> "", left |-> "001", right |-> "002"]

\* the glass part meshes of a side
GlassMeshes(side) == {Node(name, SuffixOfSide[side]) : name \in SceneGlassParts}

\* every name of a glass family
FamilyParts(type) == ConfigParts(glassConfigs[type]) \cup glassConfigs[type].singleGlasses

VisibleGlassParts(side) == {n.base : n \in {m \in GlassMeshes(side) : scene[m].visible}}

\* every glassType key of the configuration is one of the five families
ValidConfig(c) ==
    /\ c.glassType \in GlassTypes
    /\ \A side \in Sides : SideGlassType(c, side) \in GlassTypes

\* the visible parts vis fall into at most one family
AtMostOneFamily(vis) ==
    Cardinality({type \in GlassTypes : vis \cap FamilyParts(type) # {}}) <= 1

\* the visible parts vis of a side are of its selected family, or none when it is not glass
SelectedFamilyOnly(side, vis) ==
    IF SideMaterial(cfg, side) = "glass"
      THEN vis \subseteq FamilyParts(SideGlassType(cfg, side))
      ELSE vis = {}

\* C4: after resolve for any valid configuration, on each side the visible glass parts all
\* belong to at most one of the five glass families, and that family is the side's selected
\* glassType when the side's material is glass, and none when it is not.
C4_OneGlassFamilyPerSide ==
    (mounted /\ ValidConfig(cfg)) =>
        \A side \in Sides :
            LET vis == VisibleGlassParts(side)
            IN  AtMostOneFamily(vis) /\ SelectedFamilyOnly(side, vis)

\* C4 (as the code has it): at most one family per side always; with the enclosure enabled
\* it is the side's selected family when the side's material is glass and none when it is
\* not; with the enclosure disabled the front shows parts of the double family whatever the
\* front's selection, and left and right show no glass part.
C4_OneGlassFamilyPerSideAmended ==
    (mounted /\ ValidConfig(cfg)) =>
        \A side \in Sides :
            LET vis == VisibleGlassParts(side)
            IN  /\ AtMostOneFamily(vis)
                /\ cfg.enclosureEnabled => SelectedFamilyOnly(side, vis)
                /\ ~cfg.enclosureEnabled =>
                     IF side = "front"
                       THEN vis \subseteq FamilyParts("double") /\ vis # {}
                       ELSE vis = {}

\* front and left show different families at once
C4_Witness ==
    /\ mounted
    /\ cfg.enclosureEnabled
    /\ ValidConfig(cfg)
    /\ SideGlassType(cfg, "front") = "triple"
    /\ SideGlassType(cfg, "left") = "sixfold"
    /\ scene[Node("tripleleftglass", "")].visible
    /\ scene[Node("sixfirstglass", "001")].visible
    /\ ~scene[Node("tripleleftglass", "001")].visible

\* only the per-side enclosure settings differ between the two configurations
OnlySidesDiffer(c1, c2) == [c2 EXCEPT !.sideEnclosureTypes = c1.sideEnclosureTypes] = c1

\* C5: the visibility and material of a side's glass parts are governed only by that side's
\* own material and glassType: a change of another side's material or glassType leaves the
\* glass parts of every side whose own settings stay the same unchanged.
C5_SideIndependence ==
    [][ (mounted /\ OnlySidesDiffer(cfg, cfg')) =>
          \A side \in Sides :
              cfg'.sideEnclosureTypes[side] = cfg.sideEnclosureTypes[side] =>
                  \A n \in GlassMeshes(side) :
                      /\ scene'[n].visible = scene[n].visible
                      /\ scene'[n].material = scene[n].material ]_vars

\* the left side was switched to metal while the front keeps showing its glass
C5_Witness ==
    /\ mounted
    /\ changes >= 1
    /\ cfg.enclosureEnabled
    /\ SideMaterial(cfg, "left") = "metal"
    /\ SideMaterial(cfg, "front") = "glass"
    /\ SideGlassType(cfg, "front") = "triple"
    /\ scene[Node("tripleleftglass", "")].visible
    /\ VisibleGlassParts("left") = {}

\* the configuration with double in place of every glassType key that is no family
WithDouble(c) ==
    [c EXCEPT !.glassType = IF @ \in GlassTypes THEN @ ELSE "double",
              !.sideEnclosureTypes =
                  [side \in Sides |->
                      [@[side] EXCEPT !.glassType = IF @ \in GlassTypes \cup {Undefined} THEN @
                                                    ELSE "double"]]]

\* pillar scale, roof stretch and visible parts: every node's scale and visibility
ShapeView(sc) == [n \in Meshes |-> [visible |-> sc[n].visible, scale |-> sc[n].scale]]

\* C6: a glassType that is no key of the family table falls back to double everywhere:
\* with the enclosure enabled and material glass, the resolve never fails and leaves every
\* node (pillar scale, roof stretch, visible glass parts) as the resolve with double in its
\* place would.
C6_UnknownGlassTypeFallsBackToDouble ==
    [][ ( /\ mounted'
          /\ ~ValidConfig(cfg')
          /\ cfg'.enclosureEnabled
          /\ \A side \in Sides : SideMaterial(cfg', side) = "glass" ) =>
          ShapeView(scene') = ShapeView(Resolve(scene, WithDouble(cfg'))) ]_vars

(***************************************************************************)
(* Properties of the price calculator, checked under PriceSpec.            *)
(***************************************************************************)
\* the keys at the least distance from the target
NearestKeys(keys, target) ==
    {k \in keys : \A j \in keys : Abs(k - target) <= Abs(j - target)}

\* the nearest key, the lower one when two keys are equally near
LowerNearest(keys, target) ==
    CHOOSE k \in NearestKeys(keys, target) : \A j \in NearestKeys(keys, target) : k <= j

Priced == breakdown # <<>>

\* C7: calculateVerandaRoof snaps each axis on its own: the depth key nearest to the target
\* depth, then the width key nearest to the target width in that depth's row; wholesale is
\* that table entry and retail is wholesale * 2.21 rounded to cents.  castor/polycarbonate,
\* depth 3000, width 4000 gives wholesale 1225 and retail 2707.25.
C7_RoofSnapsPerAxis ==
    Priced =>
      LET roof == breakdown[1].roof
          table == RoofPricing(priceInput.model, priceInput.roofType)
      IN  /\ \E d \in NearestKeys(DOMAIN table, priceInput.depth) :
                \E w \in NearestKeys(DOMAIN table[d], priceInput.width) :
                    roof.wholesale = table[d][w]
          /\ roof.retail = roof.wholesale * 221
          /\ ( /\ priceInput.model = "castor"
               /\ priceInput.roofType = "polycarbonate"
               /\ priceInput.depth = 3000
               /\ priceInput.width = 4000 )
             => (roof.wholesale = 1225 /\ roof.retail = 270725)

C7_Witness ==
    /\ Priced
    /\ priceInput.model = "castor"
    /\ priceInput.roofType = "polycarbonate"
    /\ priceInput.depth = 3000
    /\ priceInput.width = 4000
    /\ breakdown[1].roof.wholesale = 1225

\* C8: in every lookup (roof depth, roof width, side-wall depth) a target exactly halfway
\* between two keys snaps to the lower key, any other target to the strictly closer key, and
\* a target below the smallest or above the largest key to that extreme key.
C8_TieBreakLower ==
    Priced =>
      LET table == RoofPricing(priceInput.model, priceInput.roofType)
          d == LowerNearest(DOMAIN table, priceInput.depth)
          w == LowerNearest(DOMAIN table[d], priceInput.width)
          sideKeys == DOMAIN ZijwandPolycarbonate
      IN  /\ breakdown[1].roof.wholesale = table[d][w]
          /\ \A side \in DOMAIN breakdown[1].enclosures :
                LET got == breakdown[1].enclosures[side].depth
                IN  /\ got = LowerNearest(sideKeys, priceInput.depth)
                    /\ (\A k \in sideKeys : priceInput.depth <= k) => (\A k \in sideKeys : got <= k)
                    /\ (\A k \in sideKeys : priceInput.depth >= k) => (\A k \in sideKeys : got >= k)

\* a side-wall depth target halfway between the keys 2000 and 2500 was priced
C8_Witness ==
    /\ Priced
    /\ priceInput.depth = 2250
    /\ "left" \in DOMAIN breakdown[1].enclosures
    /\ breakdown[1].enclosures.left.depth = 2000

\* C9: total.wholesale is roof.wholesale plus the wholesale of every present non-error
\* enclosure and of the lighting when present and non-error; total.retail is the sum of the
\* same components' own retail values; a component carrying an error adds to neither total
\* and the breakdown is still produced.
C9_TotalSumsNonErrorComponents ==
    Priced =>
      LET b == breakdown[1]
          sides == {x \in DOMAIN b.enclosures : NoError(b.enclosures[x])}
          lit == b.lighting # <<>> /\ NoError(b.lighting[1])
          sideWholesale == IF sides = {} THEN 0
                           ELSE Cardinality(sides) * calculateSideWall(priceInput.depth).wholesale
          sideRetail == IF sides = {} THEN 0
                        ELSE Cardinality(sides) * calculateSideWall(priceInput.depth).retail
      IN  /\ \A x \in sides : b.enclosures[x] = calculateSideWall(priceInput.depth)
          /\ b.total.wholesale =
               b.roof.wholesale + sideWholesale + (IF lit THEN b.lighting[1].wholesale ELSE 0)
          /\ b.total.retail =
               b.roof.retail + sideRetail + (IF lit THEN b.lighting[1].retail ELSE 0)

\* a breakdown with both enclosures and an erroring lighting component
C9_Witness ==
    /\ Priced
    /\ DOMAIN breakdown[1].enclosures = {"left", "right"}
    /\ breakdown[1].lighting # <<>>
    /\ ~NoError(breakdown[1].lighting[1])
    /\ breakdown[1].total.wholesale > breakdown[1].roof.wholesale

\* C10: the lighting component is present only when the light count is > 0; a count of 1
\* is priced 12; a count that is a key of the sets table is priced by that entry (10 gives
\* 200, added to the total); any other positive count yields an error component.
C10_LightingPricing ==
    Priced =>
      LET b == breakdown[1]
          count == priceInput.lighting
          others == b.total.wholesale - b.roof.wholesale
                      - Cardinality(DOMAIN b.enclosures) * calculateSideWall(priceInput.depth).wholesale
      IN  /\ (b.lighting # <<>>) <=> (count > 0)
          /\ count = 1 => (NoError(b.lighting[1]) /\ b.lighting[1].wholesale = 12)
          /\ count \in {6, 8, 10, 12, 14, 16, 18} =>
               (NoError(b.lighting[1]) /\ b.lighting[1].wholesale = LedLightingSets[count])
          /\ count = 10 => (b.lighting[1].wholesale = 200 /\ others = 200)
          /\ (count > 1 /\ count \notin {6, 8, 10, 12, 14, 16, 18}) =>
               (~NoError(b.lighting[1]) /\ others = 0)

C10_Witness ==
    /\ Priced
    /\ priceInput.lighting = 10
    /\ breakdown[1].lighting[1].wholesale = 200

(***************************************************************************)
(* Properties of the host component, checked under HostSpec.               *)
(***************************************************************************)
\* C11: the price breakdown contains enclosures.left (resp. .right) only if that side is
\* enabled, i.e. in the host only when the enclosure gate is on and the side is not 'none';
\* its price is the side-wall table entry of the bucket nearest to the depth, whatever the
\* side's material or glass family.
C11_EnclosurePricedByDepthWhenEnabled ==
    \A side \in {"left", "right"} :
        side \in DOMAIN hostPricing.enclosures =>
            /\ host.enclosureEnabled
            /\ host.sideEnclosureTypes[side].str # "none"
            /\ LET key == LowerNearest(DOMAIN ZijwandPolycarbonate, host.depth)
               IN  /\ hostPricing.enclosures[side].wholesale = ZijwandPolycarbonate[key]
                   /\ hostPricing.enclosures[side].retail = ZijwandPolycarbonate[key] * 221

\* the left side is metal and priced like the glass right side; and a side set to 'none'
\* is left out while the other is priced
C11_Witness ==
    \/ /\ host.sideEnclosureTypes.left.material = "metal"
       /\ host.sideEnclosureTypes.right.material = "glass"
       /\ DOMAIN hostPricing.enclosures = {"left", "right"}
       /\ hostPricing.enclosures.left = hostPricing.enclosures.right
       /\ host.depth = 5000
    \/ /\ host.sideEnclosureTypes.left.str = "none"
       /\ DOMAIN hostPricing.enclosures = {"right"}
       /\ host.depth = 5000

\* C19: the front side never holds a material other than glass: after any sequence of side
\* selections, material changes, glass-type changes, house-type changes and applied AI
\* configurations the front entry of sideEnclosureTypes has material glass.
C19_FrontMaterialIsGlass ==
    LET front == host.sideEnclosureTypes.front
    IN  /\ front.material \notin PanelMaterials \ {"glass"}
        /\ front.str \notin PanelMaterials \ {"glass"}

\* C20: per-side enclosure state is independent: once the effects of a change of one
\* side's glass type or material have run, the entries of the other two sides are what they
\* were before the change.
C20_OtherSidesUnchanged ==
    (lastChange # <<>> /\ ~syncPending) =>
        \A other \in Sides \ {lastChange[1].side} :
            /\ host.sideEnclosureTypes[other].material = lastChange[1].before[other].material
            /\ host.sideEnclosureTypes[other].glassType = lastChange[1].before[other].glassType

(***************************************************************************)
(* Properties of the camera controller, checked under CameraSpec.          *)
(***************************************************************************)
\* C12: the zoom radius stays within [2.0, 8.0] in every reachable state of the camera
\* controller, whatever wheel events and two-touch pinch moves occurred, interleaved with
\* drags and jump requests.
C12_ZoomWithinLimits ==
    /\ ~Less(zoomDistance, MIN_ZOOM)
    /\ ~Less(MAX_ZOOM, zoomDistance)

\* a pinch that would have carried the zoom beyond a limit ended at the limit, after a jump
\* was requested
C12_Witness ==
    /\ zoomDistance \in {MIN_ZOOM, MAX_ZOOM}
    /\ lastPinchDistance > 0
    /\ enclosureView # NoSide

\* C13: a jump request to a side finishes: the call of animate made once 1000 ms have
\* elapsed writes pathProgress and height exactly equal to that side's target constants
\* (left: 0.25 and 0.28) and requests no further frame, wherever the camera was when the
\* jump was requested.
C13_JumpEndsExactlyAtTarget ==
    (lastFrame # <<>> /\ lastFrame[1].elapsed >= duration) =>
        /\ lastFrame[1].pathProgress = targetProgress[lastFrame[1].view]
        /\ lastFrame[1].cameraHeight = targetHeight
        /\ ~lastFrame[1].again

(***************************************************************************)
(* Properties of the assistant, checked under AssistantSpec.               *)
(***************************************************************************)
\* C14: last write wins by request recency: when two requests are in flight and the older
\* response arrives after the newer one has completed, the older result is discarded, so no
\* config reaches onApplyConfig after the config of a later request has.
C14_OlderResultDiscarded ==
    \A i, j \in 1..Len(applied) : i < j => applied[i] < applied[j]

\* C15: every failure of the AI call (missing key, status not OK, missing candidates, text
\* that is not JSON, network error) is caught: callGeminiAPI does not throw, it returns
\* success = false with an error and the complete default config as fallbackConfig, and the
\* assistant then leaves its pending state.
C15_FailuresAreCaught ==
    lastCall # <<>> =>
        /\ ~lastCall[1].result.threw
        /\ lastCall[1].outcome \in FailureKinds =>
               /\ ~lastCall[1].result.success
               /\ lastCall[1].result.error # ""
               /\ lastCall[1].result.fallbackConfig = getDefaultConfig
               /\ lastCall[1].aiResponse = "fallback"

\* a reply that was not JSON has settled as the second of two calls, after a reply that was
C15_Witness ==
    /\ lastCall # <<>>
    /\ lastCall[1].outcome = "not_json"
    /\ lastCall[1].id = 2
    /\ aiResponse = "fallback"
    /\ applied = <<1>>
    /\ inFlight = {}

(***************************************************************************)
(* Properties of the interpreter, checked under InterpreterSpec.           *)
(***************************************************************************)
\* the style words and the colour words of STEP 1
StyleWords ==
    Words({"modern", "contemporary", "sleek", "minimalist", "traditional", "classic", "timeless"})

ColorsNamed(text) ==
    {colorPatterns[n].value : n \in {k \in 1..Len(colorPatterns) :
                                         TestWords(toLowerCase(text), colorPatterns[k].patterns)}}

\* C16: a call of the interpreter never throws and returns a configuration; for a text
\* that matches no detector ("hello") the returned configuration is the all-defaults one
\* (width 5.5, depth 4.5, height 3, anthracite, double, withframe, enclosure enabled on
\* front, lights off, flat roof, wall-mounted) with an empty change list.
C16_ReturnsConfiguration ==
    interpreted # <<>> =>
        /\ ~interpreted[1].threw
        /\ interpreted[1].returned # <<>>
        /\ input = "hello" =>
               /\ interpreted[1].returned[1] =
                      [width |-> 5500, depth |-> 4500, height |-> 3000,
                       roofPitchActive |-> FALSE, roofPitchAngle |-> 0,
                       metalMaterial |-> "anthracite",
                       enclosureEnabled |-> TRUE, enclosureType |-> "glass",
                       glassType |-> "double", glassStyle |-> "withframe",
                       selectedSide |-> "front",
                       lightsOn |-> FALSE, lightShape |-> "circle",
                       verandaType |-> "wall-mounted"]
               /\ interpreted[1].reasoning = <<>>
               /\ interpreted[1].keyFeatures = <<>>

\* C17: for a text that names the six-glass family, also next to the word of a lower
\* family, the interpreter yields glassType sixfold, enclosureEnabled true and
\* selectedSide front.
C17_SixfoldHasPriority ==
    (interpreted # <<>> /\ FamilyNamed(toLowerCase(input), glassFamilies[1])) =>
        /\ interpreted[1].returned # <<>>
        /\ interpreted[1].returned[1].glassType = "sixfold"
        /\ interpreted[1].returned[1].enclosureEnabled
        /\ interpreted[1].returned[1].selectedSide = "front"

\* C18: for a text with a style word and a colour word the interpreter yields the
\* metalMaterial of a colour word of the text, and the width of "7m wide" is returned
\* as width 7.
C18_ExplicitColorAndWidth ==
    (interpreted # <<>> /\ TestWords(toLowerCase(input), StyleWords) /\ ColorsNamed(input) # {}) =>
        /\ interpreted[1].returned # <<>>
        /\ interpreted[1].returned[1].metalMaterial \in ColorsNamed(input)
        /\ Contains(toLowerCase(input), "7m wide") => interpreted[1].returned[1].width = 7000

\* C23: back-structure visibility depends only on verandaType: after resolve the back
\* pillars, the back glass and the back holder are all hidden when verandaType is
\* wall-mounted and all visible when it is freestanding, whatever the roof, enclosure and
\* other parameters are, although the initial visibility setup rewrites visibility after
\* the structural regime pass.
C23_BackStructureFollowsVerandaType ==
    mounted =>
        /\ cfg.verandaType = "wall-mounted" => \A name \in backElementNames : ~Visible(name)
        /\ cfg.verandaType = "freestanding" => \A name \in backElementNames : Visible(name)

\* a freestanding veranda with a pitched roof and the enclosure switched off shows its back
C23_Witness ==
    /\ mounted
    /\ cfg.verandaType = "freestanding"
    /\ ~cfg.enclosureEnabled
    /\ \A name \in backElementNames : Visible(name)

\* C24: when roofPitchActive is false exactly one flat roof mesh variant is visible after
\* resolve, the one of the structural regime: pitchnormroof visible and normroof hidden
\* for wall-mounted, normroof visible and pitchnormroof hidden for freestanding.
C24_FlatRoofMeshOfRegime ==
    (mounted /\ ~cfg.roofPitchActive) =>
        /\ Visible("normroof") # Visible("pitchnormroof")
        /\ cfg.verandaType = "wall-mounted" => (Visible("pitchnormroof") /\ ~Visible("normroof"))
        /\ cfg.verandaType = "freestanding" => (Visible("normroof") /\ ~Visible("pitchnormroof"))

\* a wall-mounted veranda with a flat roof shows pitchnormroof
C24_Witness ==
    /\ mounted
    /\ ~cfg.roofPitchActive
    /\ cfg.verandaType = "wall-mounted"
    /\ Visible("pitchnormroof")
    /\ ~Visible("normroof")

frontCornerPillars == {"leftpillar", "rightpillar"}

\* C25: after resolve each front corner pillar has a uniform scale, the same factor on
\* x, y and z, equal to the pillar-scale table entry of the family of the current glassType.
C25_PillarScaleUniform ==
    mounted =>
        \A name \in frontCornerPillars :
            LET scale == scene[Node(name, "")].scale
                pillarScale == currentGlassConfig(cfg).pillarScale
            IN  /\ scale.x = scale.y
                /\ scale.y = scale.z
                /\ scale = pillarScale

\* the border parts and the grid parts of every family
BorderParts == UNION {glassConfigs[type].borders : type \in GlassTypes}

GridParts == {glassConfigs[type].grid : type \in GlassTypes}

\* the holder, slider and panel parts of a family
AlwaysShownParts(type) ==
    glassConfigs[type].holders \cup glassConfigs[type].sliders \cup glassConfigs[type].glasses

\* the sub-category rules on one glass mesh of a side
SubCategoryRules(side, n) ==
    /\ (n.base \in BorderParts /\ scene[n].visible) => cfg.glassStyle \in {"withframe", "grid"}
    /\ (n.base \in GridParts /\ scene[n].visible) => cfg.glassStyle = "grid"
    /\ ( /\ SideMaterial(cfg, side) = "glass"
         /\ SideGlassType(cfg, side) \in GlassTypes
         /\ n.base \in AlwaysShownParts(SideGlassType(cfg, side)) ) => scene[n].visible

\* C26: the glass sub-category rules hold after resolve for every configuration: a border
\* part is visible only when glassStyle is withframe or grid, a grid part is visible only
\* when glassStyle is grid, and the holder, slider and panel parts of a side's active
\* family are visible whenever that side's material is glass.
C26_GlassSubCategoryRules ==
    mounted => \A side \in Sides : \A n \in GlassMeshes(side) : SubCategoryRules(side, n)

\* what the glass meshes show with the enclosure disabled: on the front the holders,
\* panels, borders and sliders of the double family, nothing else
DisabledGlassDisplay ==
    \A side \in Sides :
        \A n \in GlassMeshes(side) :
            scene[n].visible <=>
                (side = "front" /\ n.base \in AlwaysShownParts("double") \cup glassConfigs.double.borders)

\* C26 (as the code has it): with the enclosure enabled the sub-category rules hold, and a
\* border of the active family of a glass side is visible exactly when glassStyle is
\* withframe or grid, its grid exactly when glassStyle is grid; with the enclosure
\* disabled the front shows the double family's holders, panels, sliders and borders
\* whatever the glassStyle, and no grid and no part of the left or right side is visible.
C26_GlassSubCategoryRulesAmended ==
    mounted =>
        IF cfg.enclosureEnabled
          THEN \A side \in Sides :
                 \A n \in GlassMeshes(side) :
                     /\ SubCategoryRules(side, n)
                     /\ (SideMaterial(cfg, side) = "glass" /\ SideGlassType(cfg, side) \in GlassTypes) =>
                          LET config == glassConfigs[SideGlassType(cfg, side)]
                          IN  /\ n.base \in config.borders =>
                                   (scene[n].visible <=> cfg.glassStyle \in {"withframe", "grid"})
                              /\ n.base = config.grid =>
                                   (scene[n].visible <=> cfg.glassStyle = "grid")
          ELSE DisabledGlassDisplay

\* glass without frame on the front: the panels, holders and sliders show, the border not
C26_Witness ==
    /\ mounted
    /\ cfg.enclosureEnabled
    /\ cfg.glassStyle = "onlyglass"
    /\ SideMaterial(cfg, "front") = "glass"
    /\ SideGlassType(cfg, "front") = "triple"
    /\ scene[Node("tripleleftglass", "")].visible
    /\ scene[Node("tripleglassholder", "")].visible
    /\ scene[Node("tripleglasssliderleft", "")].visible
    /\ ~scene[Node("borderglasslefttriple", "")].visible

\* the non-glass part sets of the left and the right side, by material
SidePartSets ==
    [left |-> [metal |-> leftMetalParts, wood |-> leftWoodParts, window |-> leftWindowParts],
     right |-> [metal |-> rightMetalParts, wood |-> rightWoodParts, window |-> rightWindowParts]]

NonGlassMaterials == {"metal", "wood", "window"}

\* C27: with the enclosure enabled, for left and right independently: when the side's
\* material is metal, wood or window, resolve leaves exactly that material's part set of
\* the side visible, its other two non-glass part sets hidden and every glass-family part
\* of the side hidden; when the material is open or glass all three non-glass part sets of
\* the side are hidden.
C27_NonGlassEnclosureParts ==
    (mounted /\ cfg.enclosureEnabled) =>
        \A side \in {"left", "right"} :
            LET material == SideMaterial(cfg, side)
            IN  /\ \A kind \in NonGlassMaterials :
                      \A name \in SidePartSets[side][kind] : Visible(name) <=> (material = kind)
                /\ material \in NonGlassMaterials => VisibleGlassParts(side) = {}

\* a window wall on the left and a wooden wall on the right at once
C27_Witness ==
    /\ mounted
    /\ cfg.enclosureEnabled
    /\ SideMaterial(cfg, "left") = "window"
    /\ SideMaterial(cfg, "right") = "wood"
    /\ \A name \in leftWindowParts \cup rightWoodParts : Visible(name)
    /\ \A name \in leftMetalParts \cup leftWoodParts \cup rightMetalParts \cup rightWindowParts :
           ~Visible(name)
    /\ VisibleGlassParts("left") = {}
    /\ VisibleGlassParts("right") = {}

\* every metal, wood and window part of the left and the right side
NonGlassParts ==
    UNION {SidePartSets[side][kind] : side \in {"left", "right"}, kind \in NonGlassMaterials}

\* C28: enclosureEnabled gates all side-wall output: when it is false, resolve leaves no
\* glass-family part and no metal, wood or window part visible on any side (front, left
\* or right), whatever sideEnclosureTypes, glassType and glassStyle are.
C28_EnclosureGatesSideWalls ==
    (mounted /\ ~cfg.enclosureEnabled) =>
        /\ \A side \in Sides : VisibleGlassParts(side) = {}
        /\ \A name \in NonGlassParts : ~Visible(name)

\* C28 (as the code has it): when enclosureEnabled is false, resolve leaves no metal, wood
\* or window part and no left or right glass-family part visible, whatever
\* sideEnclosureTypes, glassType and glassStyle are; the front keeps the default display
\* of the double family: its holders, panels, sliders and borders are visible, its grid
\* and every part of the other families are hidden.
C28_EnclosureGatesSideWallsAmended ==
    (mounted /\ ~cfg.enclosureEnabled) =>
        /\ VisibleGlassParts("left") = {}
        /\ VisibleGlassParts("right") = {}
        /\ \A name \in NonGlassParts : ~Visible(name)
        /\ VisibleGlassParts("front") =
             SceneGlassParts \cap (ConfigParts(glassConfigs.double) \ {glassConfigs.double.grid})

\* the enclosure switched off while the left side is set to metal: no wall, double front
C28_Witness ==
    /\ mounted
    /\ ~cfg.enclosureEnabled
    /\ SideMaterial(cfg, "left") = "metal"
    /\ SideGlassType(cfg, "front") = "triple"
    /\ ~Visible("metalleft")
    /\ Visible("oneglassleft")
    /\ ~Visible("tripleleftglass")

\* the original position of an awning mesh has been captured, and it is the loaded one
Captured(name) ==
    /\ scene[Node(name, "")].userData.originalY = <<AssetPosition.y>>
    /\ scene[Node(name, "")].userData.originalZ = <<AssetPosition.z>>

NotCaptured(name) ==
    /\ scene[Node(name, "")].userData.originalY = <<>>
    /\ scene[Node(name, "")].userData.originalZ = <<>>

\* where the awning meshes stand after a resolve
AwningPositionsHold ==
    /\ \A name \in pitchAwningNames \cup flatAwningNames :
           /\ Captured(name) \/ NotCaptured(name)
           /\ NotCaptured(name) => scene[Node(name, "")].position = AssetPosition
    /\ \A name \in flatAwningNames : scene[Node(name, "")].position = AssetPosition
    /\ (mounted /\ cfg.roofAwningPosition = "top" /\ cfg.roofPitchActive) =>
           \A name \in pitchAwningNames :
               /\ Captured(name)
               /\ scene[Node(name, "")].position =
                    [y |-> AssetPosition.y + BASE_Y_OFFSET + cfg.roofPitchAngle * 10,
                     z |-> AssetPosition.z + Z_OFFSET]
    /\ (mounted /\ cfg.roofAwningPosition = "top" /\ ~cfg.roofPitchActive) =>
           \A name \in flatAwningNames : Captured(name)

\* a captured original stays as it is
CapturedOnce ==
    \A name \in pitchAwningNames \cup flatAwningNames :
        ~NotCaptured(name) => scene'[Node(name, "")].userData = scene[Node(name, "")].userData

\* C29: the awning position never drifts: the original local position of an awning mesh
\* is captured once, before the first write to its position, and is never changed
\* afterwards; after any sequence of resolves with the awning at the top the pitched
\* awning stands at original + (y 0.02, z -0.02) + roofPitchAngle * 0.01 on y, and the flat
\* awning at its original.
C29_AwningNeverDrifts == [][AwningPositionsHold' /\ CapturedOnce]_vars

\* the roof was flattened under a raised awning: the flat awning shows at its original,
\* the pitched one keeps its capture
C29_Witness ==
    /\ mounted
    /\ changes = 2
    /\ cfg.roofAwningPosition = "top"
    /\ ~cfg.roofPitchActive
    /\ Visible("normawn")
    /\ Captured("normawn")
    /\ Captured("roofpitchawn")
    /\ scene[Node("normawn", "")].position = AssetPosition
    /\ scene[Node("roofpitchawn", "")].position.y = AssetPosition.y + BASE_Y_OFFSET

\* the flat-roof light mesh of each lightShape
LightMeshOfShape == [circle |-> "lightsround", rectangle |-> "lightsrect", square |-> "lightssquare"]

\* C30: after resolve no flat-roof light mesh (lightsround, lightsrect, lightssquare) is
\* visible when roofPitchActive is true or lightsOn is false; when lightsOn is true and the
\* roof is flat, exactly the one mesh matching lightShape is visible and the other two are
\* hidden.
C30_LightingPass ==
    mounted =>
        IF cfg.roofPitchActive \/ ~cfg.lightsOn
          THEN \A name \in normalLights : ~Visible(name)
          ELSE \A name \in normalLights : Visible(name) <=> (name = LightMeshOfShape[cfg.lightShape])

\* the lights switched on under a flat roof
C30_Witness ==
    /\ mounted
    /\ ~cfg.roofPitchActive
    /\ cfg.lightsOn
    /\ Visible(LightMeshOfShape[cfg.lightShape])
    /\ Cardinality({name \in normalLights : Visible(name)}) = 1

(***************************************************************************)
(* Properties of the host's renders as the scene resolution sees them,     *)
(* checked under HostSpec.                                                 *)
(***************************************************************************)
\* C21: configuration changes are applied atomically: no run of resolve observes a
\* configuration in which the global glassType (pillar scale, roof stretch) differs from the
\* glassType of the front side after an apply-configuration, a house-type change or a
\* front glass-type change (the handlers that write glassType).
C21_ResolveSeesConsistentGlassType ==
    [][ host'.glassType # host.glassType =>
          SideGlassType(VerandaModelProps(host'), "front") = VerandaModelProps(host').glassType ]_vars

\* the configuration with no side selected
Unfocused(h) == [h EXCEPT !.selectedSide = NoSide]

\* C22: selectedSide affects only the focus of the panel: two configurations that differ
\* only in selectedSide give identical node states from resolve and an identical price
\* breakdown (each gives what the configuration with no side selected gives).
C22_SelectedSideOnlyFocus ==
    /\ Resolve(FreshScene, VerandaModelProps(host)) =
         Resolve(FreshScene, VerandaModelProps(Unfocused(host)))
    /\ HostPricing(host) = HostPricing(Unfocused(host))

\* the left side is being edited and has a glass family of its own and a price
C22_Witness ==
    /\ host.selectedSide = "left"
    /\ host.sideEnclosureTypes.left.glassType = "sixfold"
    /\ host.glassType = "triple"
    /\ Resolve(FreshScene, VerandaModelProps(host))[Node("sixfirstglass", "001")].visible
    /\ "left" \in DOMAIN hostPricing.enclosures

(***************************************************************************)
(* Properties of the materials the scene resolution leaves, under Spec.    *)
(***************************************************************************)
\* the glass panels of every family
PanelParts ==
    UNION {glassConfigs[type].glasses \cup glassConfigs[type].singleGlasses : type \in GlassTypes}

\* C31: after any sequence of resolves every visible side glass panel and the roof glass
\* meshes carry the same glass material, the one resolved from tintedGlassEnabled and
\* glassColor of the current configuration (clear when tinting is off), the front panels
\* that stay visible with the enclosure disabled included.
C31_OneGlassMaterial ==
    mounted =>
        /\ \A side \in Sides :
               \A n \in GlassMeshes(side) :
                   (n.base \in PanelParts /\ scene[n].visible) =>
                       scene[n].material = getGlassMaterial(cfg)
        /\ \A name \in roofGlassObjects : scene[Node(name, "")].material = getGlassMaterial(cfg)

\* the slider parts of every family
SliderParts == UNION {glassConfigs[type].sliders : type \in GlassTypes}

\* meshes the frame colour is never meant for: glass panels and sliders of every family
\* and suffix, the light meshes, the awning fabrics and the floor
NeverFramed ==
    {n \in Meshes : n.base \in PanelParts \cup SliderParts}
      \cup {Node(name, "") : name \in normalLights \cup {"normawnfabric", "roofpitchawnfabric", "floor"}}

\* the frame colour pass leaves the mesh out
ExcludedFromFrame(n) == In(n, excludedFromFrameColor) \/ isGlassObject(n)

\* C32: after resolve every visible mesh that is not excluded carries the frame material
\* of the current metalMaterial, the visible back pillars and back holder always carry
\* it, and no glass panel, slider, light mesh, awning fabric or floor mesh (with or
\* without suffix, of every family, sixfold included) ever receives the frame material.
C32_FrameColorPass ==
    mounted =>
        /\ \A n \in Meshes :
               (scene[n].visible /\ ~ExcludedFromFrame(n)) => scene[n].material = frameMaterial(cfg)
        /\ \A name \in backElements :
               Visible(name) => scene[Node(name, "")].material = frameMaterial(cfg)
        /\ \A n \in NeverFramed : scene[n].material.kind # "frame"

\* a freestanding veranda in black: the back pillars are black, the sliders are not framed
C32_Witness ==
    /\ mounted
    /\ cfg.verandaType = "freestanding"
    /\ cfg.metalMaterial = "black"
    /\ Visible("leftbackpiller")
    /\ scene[Node("leftbackpiller", "")].material = frameMaterial(cfg)
    /\ scene[Node("tripleglassholder", "")].material.color = "#000000"
    /\ Visible("tripleglasssliderleft")
    /\ scene[Node("tripleglasssliderleft", "001")].visible
    /\ scene[Node("tripleglasssliderleft", "001")].material.kind # "frame"

\* C33: an unknown glassColor key falls back to clear: with tintedGlassEnabled true and a
\* glassColor that is no key of the tint table, the glass material resolve produces (on
\* the roof glass and on every visible panel) is identical in colour, opacity and
\* transmission to the one produced for glassColor clear.
C33_UnknownGlassColorIsClear ==
    (mounted /\ cfg.tintedGlassEnabled /\ cfg.glassColor \notin DOMAIN GLASS_TINT_COLORS) =>
        \A n \in Meshes :
            scene[n].material =
                Resolve(scene, [cfg EXCEPT !.glassColor = "clear"])[n].material


\* C34: in every reachable state of the camera controller pathProgress lies in [0, 1) and
\* the height lies in [-0.5, 3.5], after any interleaving of pointer drags, jump requests
\* and animation callbacks, a drag that moves the state while an animation runs included.
C34_CameraWithinRanges ==
    /\ ~Less(pathProgress, Zero)
    /\ Less(pathProgress, One)
    /\ ~Less(cameraHeight, MinHeight)
    /\ ~Less(MaxHeight, cameraHeight)

\* a drag carried the height to its upper limit and moved pathProgress while a jump
\* animation was running
C34_Witness ==
    /\ animations # {}
    /\ isDragging
    /\ cameraHeight = MaxHeight
    /\ \E chain \in animations : pathProgress # chain.startProgress

\* C35: vertical dead zone: during a drag a pointer-move event changes the height only when
\* the absolute vertical movement accumulated since the last commit (or since pointer-down)
\* exceeds the 15-pixel threshold, every move below that leaves the height unchanged, and
\* the accumulator is 0 after a commit, after pointer-down and after pointer-up.
C35_VerticalDeadZone ==
    [][(cameraSteps' # cameraSteps) =>
          /\ (cameraHeight' # cameraHeight) =>
                 /\ isDragging
                 /\ verticalDragAccumulator' = 0
                 /\ \A deltaY \in DragDeltaY :
                        (cameraHeight' = ClampHeight(Minus(cameraHeight, DragHeight[deltaY])))
                            => verticalDragAccumulator + Abs(deltaY) > VERTICAL_DEAD_ZONE
          /\ (isDragging' # isDragging) => verticalDragAccumulator' = 0]_vars

\* what the chain wrote in its last call of animate
LastWritten(chain) ==
    LET elapsed == chain.lastRun - chain.startTime
    IN  [pathProgress |-> Plus(chain.startProgress,
                               Times(Minus(chain.targetProgress, chain.startProgress),
                                     easeProgress[elapsed])),
         cameraHeight |-> Plus(chain.startHeight,
                               Times(Minus(targetHeight, chain.startHeight),
                                     easeProgress[elapsed]))]

\* C36: a later input supersedes a jump animation in flight: at most one callback chain is
\* active at any time, and a callback writes pathProgress and height only when no jump
\* request and no drag has come since the chain's previous call (the camera is still where
\* the chain left it and the chain is the one of the current enclosureView), so that what a
\* drag did to pathProgress persists.
C36_LaterInputSupersedes ==
    [][/\ Cardinality(animations') <= 1
       /\ (cameraSteps' = cameraSteps /\ now' = now) =>
              \A chain \in animations \ animations' :
                  /\ chain.view = enclosureView
                  /\ pathProgress = LastWritten(chain).pathProgress
                  /\ cameraHeight = LastWritten(chain).cameraHeight]_vars

\* C37: with a non-empty history the relative adjustments stay within the ranges of the
\* absolute detection (width within [3, 15], height within [2.5, 6]) and move in the
\* requested direction: "bigger" never yields a width smaller than the one detected before
\* the adjustment (the locals the same text gives with an empty history, where STEP 11 is
\* skipped), and "taller" never yields a smaller height.
C37_RelativeAdjustments ==
    (interpreted # <<>> /\ Len(history) > 0) =>
        \E before \in {interpretLocals(input, <<>>).config} :
            /\ interpreted[1].config.width \in 3000..15000
            /\ interpreted[1].config.height \in 2500..6000
            /\ TestWords(toLowerCase(input), Words({"bigger"})) =>
                   interpreted[1].config.width >= before.width
            /\ TestWords(toLowerCase(input), Words({"taller"})) =>
                   interpreted[1].config.height >= before.height

\* C38: applying a configuration that names a side s in {left, right} and an enclosure type
\* m leaves sideEnclosureTypes[s] a {material, glassType} record whose material is m, so
\* that the next resolve renders side s with material m, and leaves the entries of the
\* other sides as they were.
C38_AppliedSideKeepsRecord ==
    [][\A config \in AppliedConfigs :
           (config.selectedSide \in {"left", "right"} /\ host' = ApplyAIConfig(host, config)) =>
               /\ host'.sideEnclosureTypes[config.selectedSide].str = Undefined
               /\ host'.sideEnclosureTypes[config.selectedSide].material = config.enclosureType
               /\ SideMaterial(VerandaModelProps(host'), config.selectedSide) = config.enclosureType
               /\ \A other \in Sides \ {config.selectedSide} :
                      host'.sideEnclosureTypes[other] = host.sideEnclosureTypes[other]]_vars

\* the scene with every mesh hidden
HiddenScene == [n \in Meshes |-> [FreshScene[n] EXCEPT !.visible = FALSE]]

\* C39: visibility is fully re-derived on every resolve: after resolve(C) the visibility of
\* every mesh is a function of C alone, the one the same resolve gives on the freshly loaded
\* scene and on a scene with every mesh hidden, whatever was resolved earlier.
C39_VisibilityFromConfigAlone ==
    mounted =>
        \E fresh \in {Resolve(FreshScene, cfg)} :
            \E hidden \in {Resolve(HiddenScene, cfg)} :
                \A n \in Meshes :
                    /\ scene[n].visible = fresh[n].visible
                    /\ scene[n].visible = hidden[n].visible

\* the props are those of the first render again after two changes, and a mesh that was
\* visible when the scene was loaded is hidden
C39_Witness ==
    /\ mounted
    /\ changes = 2
    /\ cfg = DefaultConfig
    /\ \E n \in Meshes : FreshScene[n].visible /\ ~scene[n].visible

\* the light meshes of the flat and of the pitched roof
LightMeshes ==
    {n \in Meshes : n.base \in normalLights \cup
                        {"roofpitchlightround", "roofpitchlightsrect", "roofpitchlightssquare"}}

\* C40: price and scene agree on lighting: in every state reachable through configuration
\* changes the price breakdown holds a lighting component if and only if a light mesh is
\* visible in the scene resolved from the props of the same render.
C40_PriceAndSceneAgreeOnLighting ==
    \E resolved \in {Resolve(FreshScene, VerandaModelProps(host))} :
        (hostPricing.lighting # <<>>) <=> (\E n \in LightMeshes : resolved[n].visible)

====
